---------------------------- MODULE Spec2Model ----------------------------
(***************************************************************************)
(* Stock-Selector: the SEC EDGAR acquisition pipeline.                     *)
(*                                                                         *)
(*   Index Synchronizer       SECFilingDownloader.download_master_files    *)
(*                            (and the free function                       *)
(*                            download_sec_master_files)                   *)
(*   Filing List Builder      SECFilingDownloader.generate_filings_list    *)
(*   Filing Corpus Downloader SECFilingDownloader.download_filings         *)
(*   download-data command    main.download_data                           *)
(*                                                                         *)
(* The local file system (index files, created directories, filing files)  *)
(* and the remote service are part of the state.  A GET is split into the  *)
(* request (the call of requests.get), the response (its return or its     *)
(* exception, handled by the caller) and the time.sleep that follows, so   *)
(* that the outstanding request and the owed delay are visible states.     *)
(***************************************************************************)
EXTENDS Integers, Sequences, FiniteSets, TLC

(***************************************************************************)
(* Bounds of the model.                                                    *)
(***************************************************************************)
\* number of calendar years the year arguments are drawn from
NumYears == 3
\* number of times an entry point is run in one behaviour
MaxRuns == 2
\* number of fetches of the synchronizer that fail, and of writes and of
\* directory creations of the downloader that fail, in one behaviour
MaxFaults == 1

\* the first year of the model's calendar: one year before the first year the
\* class-based Filing List Builder reads (BuilderFirstYear)
BuilderFirstYear == 2010
Years == (BuilderFirstYear - 1)..(BuilderFirstYear + NumYears - 2)

(***************************************************************************)
(* Index Synchronizer: pure parts.                                         *)
(***************************************************************************)
quarters == <<"QTR1", "QTR2", "QTR3", "QTR4">>

\* total_tasks, as the loop before the progress bar computes it
RECURSIVE TotalTasksLoop(_, _, _)
TotalTasksLoop(y, s, e) ==
    IF y > e THEN 0
    ELSE (IF y = s \/ y = e THEN 1 ELSE 4) + TotalTasksLoop(y + 1, s, e)

TotalTasks(s, e) == IF s = e THEN 1 ELSE TotalTasksLoop(s, s, e)

\* QtrRange without the end-year branch: four quarters for every year
QtrRangeEndYearAll(y, s, e) == quarters

\* qtr_range of one year of the loop
QtrRange(y, s, e) ==
    IF y = s THEN quarters
    ELSE IF y = e THEN SubSeq(quarters, 1, 1)
    ELSE quarters

\* the (year, quarter) unit the loops are at
Unit(y, q) == <<y, q>>
Units == Years \X (1..Len(quarters))

(***************************************************************************)
(* Filing Corpus Downloader: pure parts.                                   *)
(***************************************************************************)
\* text is a sequence of one-character strings
Digits == {"0", "1", "2", "3", "4", "5", "6", "7", "8", "9"}

\* date[:4]
FilingYear(date) == SubSeq(date, 1, IF Len(date) < 4 THEN Len(date) ELSE 4)

\* save_dir = f"{download_dir}/{cik}/{year}"
SaveDir(row) == <<"filings", row.CIK, FilingYear(row.Date)>>

\* os.makedirs(save_dir, exist_ok=True)
SaveDirs(row) == {<<"filings">>, <<"filings", row.CIK>>, SaveDir(row)}

\* file_path = f"{save_dir}/{form}_{date}.txt"
FilePath(row) == <<row.CIK, FilingYear(row.Date), row.Form, row.Date>>

\* the content of a file of size 0
Empty == <<>>

\* ShouldSkip without the size test: a file of size zero is skipped too
ShouldSkipExistsOnly(fs, p) == p \in DOMAIN fs

\* ShouldSkip with the test left out: every record is fetched
ShouldSkipNever(fs, p) == FALSE

\* os.path.exists(file_path) and os.path.getsize(file_path) > 0
ShouldSkip(fs, p) == p \in DOMAIN fs /\ fs[p] # Empty

\* what the remote service answers to the GET of a filing url: status 200
\* with a body, status 200 with an empty body, another status, or no answer
\* (requests.get raises)
Responses == {"ok", "empty", "status", "exception"}
Is200(r) == r \in {"ok", "empty"}

\* the remote service answers a filing url the same way every time: any
\* answer the first time the url is requested, that answer from then on
Answers(rem, url) == IF url \in DOMAIN rem THEN {rem[url]} ELSE Responses

\* response.content of a 200 answer
FilingBody(url, r) == IF r = "ok" THEN <<"body", url>> ELSE Empty

\* what the local disk does with open(file_path, 'wb') and f.write: the
\* write succeeds, open() raises (the file is left as it was), or f.write
\* raises after open() created/truncated the file and part of the body is
\* on disk
DiskOutcomes == {"written", "open_error", "write_error"}

\* the file system after open(file_path, 'wb'); f.write(response.content)
WriteFile(fs, p, body, d) ==
    CASE d = "written" -> (p :> body) @@ fs
      [] d = "write_error" ->
            (p :> (IF body = Empty THEN Empty ELSE <<"partial", body>>)) @@ fs
      [] OTHER -> fs

\* a GET as its caller sees it: <<what requests.get came to, what the write of
\* the body came to>>; no write is tried unless the status is 200
Outcomes ==
    {<<r, d>> : r \in {"ok", "empty"}, d \in DiskOutcomes}
        \cup {<<r, "none">> : r \in {"status", "exception"}}

\* the ordinary outcome; every other one counts against MaxFaults
IsFault(o) == o # <<"ok", "written">>

\* FetchOutcome with the status test left out: any answer that was not a failed write counts as
\* downloaded
FetchOutcomeStatusIgnored(o) == IF o[2] \in {"written", "none"} THEN "downloaded" ELSE "failed"

\* the outcome of a record that was not skipped: downloaded += 1 is reached
\* when the status is 200 and the with-block did not raise, failed += 1 in
\* the else branch and in the except branch
FetchOutcome(o) == IF Is200(o[1]) /\ o[2] = "written" THEN "downloaded" ELSE "failed"

(***************************************************************************)
(* Filing List Builder: pure parts.  A text file is the sequence of its    *)
(* lines (f.readlines()), a line a sequence of one-character strings.      *)
(***************************************************************************)
\* f.readlines()[11:]
HeaderLines == 11
\* years = range(2010, 2026)
BuilderEndYear == 2026
BuilderYears == BuilderFirstYear..(BuilderEndYear - 1)

Whitespace == {" ", "\n", "\t", "\r"}

\* str.strip()
RECURSIVE LStrip(_)
LStrip(s) == IF s # <<>> /\ Head(s) \in Whitespace THEN LStrip(Tail(s)) ELSE s

RECURSIVE RStrip(_)
RStrip(s) ==
    IF s # <<>> /\ s[Len(s)] \in Whitespace
    THEN RStrip(SubSeq(s, 1, Len(s) - 1))
    ELSE s

Strip(s) == RStrip(LStrip(s))

\* str.split('|'): the fields between the separators, at least one field
RECURSIVE SplitAt(_, _, _)
SplitAt(s, i, field) ==
    IF i > Len(s) THEN <<field>>
    ELSE IF s[i] = "|" THEN <<field>> \o SplitAt(s, i + 1, <<>>)
    ELSE SplitAt(s, i + 1, Append(field, s[i]))

Split(s) == SplitAt(s, 1, <<>>)

\* the form type kept: '10-K'
TargetForm == <<"1", "0", "-", "K">>

\* Keeps with the form compared by its prefix: 10-K/A is kept too
KeepsFormPrefix(parts) ==
    /\ Len(parts) >= 5
    /\ Len(parts[3]) >= Len(TargetForm)
    /\ SubSeq(parts[3], 1, Len(TargetForm)) = TargetForm

\* len(parts) >= 5 and parts[2] in ['10-K']
Keeps(parts) == Len(parts) >= 5 /\ parts[3] = TargetForm

\* the dict appended to filings_list
Record(parts, base_url) ==
    [CIK |-> parts[1], Company |-> parts[2], Form |-> parts[3],
     Date |-> parts[4], URL |-> base_url \o parts[5]]

\* DataLines with the preamble not skipped
DataLinesFromStart(lines) == lines

\* the lines of one index file the loop body sees
DataLines(lines) == SubSeq(lines, HeaderLines + 1, Len(lines))

\* for line in lines: ... filings_list.append(...)
RECURSIVE ParseLines(_, _)
ParseLines(lines, base_url) ==
    IF lines = <<>> THEN <<>>
    ELSE LET parts == Split(Strip(Head(lines)))
         IN (IF Keeps(parts) THEN <<Record(parts, base_url)>> ELSE <<>>)
                \o ParseLines(Tail(lines), base_url)

\* the records of one index file
ParseIndex(lines, base_url) == ParseLines(DataLines(lines), base_url)

\* for year in years: for qtr in quarters: if os.path.exists(idx_file): ...
\* over the units of the model's calendar, in the order of the loops
RECURSIVE ParseFrom(_, _, _, _)
ParseFrom(ix, y, q, base_url) ==
    IF y > BuilderEndYear - 1 \/ y > BuilderFirstYear + NumYears - 2 THEN <<>>
    ELSE LET here == IF <<y, q>> \in DOMAIN ix
                     THEN ParseIndex(ix[<<y, q>>], base_url)
                     ELSE <<>>
         IN here \o (IF q < Len(quarters)
                     THEN ParseFrom(ix, y, q + 1, base_url)
                     ELSE ParseFrom(ix, y + 1, 1, base_url))

\* the sequence s without the elements that repeat an earlier one
RECURSIVE Dedup(_)
Dedup(s) ==
    IF s = <<>> THEN <<>>
    ELSE LET front == SubSeq(s, 1, Len(s) - 1)
         IN IF \E i \in 1..(Len(s) - 1) : s[i] = s[Len(s)]
            THEN Dedup(front)
            ELSE Append(Dedup(front), s[Len(s)])

\* GenerateFilingsList with a record kept once however often it is listed
GenerateFilingsListDedup(ix, base_url) ==
    Dedup(ParseFrom(ix, BuilderFirstYear, 1, base_url))

GenerateFilingsList(ix, base_url) == ParseFrom(ix, BuilderFirstYear, 1, base_url)

(***************************************************************************)
(* The filing list file: filings_df.to_csv(output_file, index=False) and   *)
(* pd.read_csv(filings_list_file).                                         *)
(***************************************************************************)
\* to_csv writes every field as its text, one row per record
ToCsv(list) == list

IsNumeric(s) == s # <<>> /\ \A i \in 1..Len(s) : s[i] \in Digits

\* str(int(s)): the digits without their leading zeros
RECURSIVE IntText(_)
IntText(s) == IF Len(s) > 1 /\ Head(s) = "0" THEN IntText(Tail(s)) ELSE s

\* ReadCsv with every column read as text
ReadCsvKeepText(rows) == rows

\* read_csv infers each column's type from all of its values: a column whose
\* values all read as integers becomes int64, and the row's cik is then
\* formatted from the integer
ReadCsv(rows) ==
    IF rows # <<>> /\ \A i \in 1..Len(rows) : IsNumeric(rows[i].CIK)
    THEN [i \in 1..Len(rows) |-> [rows[i] EXCEPT !.CIK = IntText(@)]]
    ELSE rows

(***************************************************************************)
(* The remote service's index files: pipe-delimited text, an 11-line       *)
(* preamble, then CIK|Company Name|Form Type|Date Filed|Filename lines.    *)
(***************************************************************************)
DigitChars == <<"0", "1", "2", "3", "4", "5", "6", "7", "8", "9">>

\* f"{year}"
RECURSIVE Decimal(_)
Decimal(n) ==
    IF n < 10 THEN <<DigitChars[n + 1]>>
    ELSE Decimal(n \div 10) \o <<DigitChars[(n % 10) + 1]>>

RECURSIVE JoinBar(_)
JoinBar(fields) ==
    IF fields = <<>> THEN <<>>
    ELSE IF Len(fields) = 1 THEN fields[1]
    ELSE fields[1] \o <<"|">> \o JoinBar(Tail(fields))

Line(fields) == JoinBar(fields) \o <<"\n">>

\* sec_edgar.base_url of the configuration
BaseUrl == <<"B", "/">>

\* f"{self.base_url}edgar/full-index/{year}/{qtr}/master.idx"
IndexUrl(u) ==
    BaseUrl \o <<"x", "/">> \o Decimal(u[1])
        \o <<"/", "Q", DigitChars[u[2] + 1], "/", "m">>

Form10K == <<"1", "0", "-", "K">>
Form10Q == <<"1", "0", "-", "Q">>
Form10KA == <<"1", "0", "-", "K", "/", "A">>
Cik07 == <<"0", "7">>
Cik8 == <<"8">>
File1 == <<"f", "1">>
File2 == <<"f", "2">>
DateIn(y, month) == Decimal(y) \o <<"-">> \o month

Preamble ==
    [i \in 1..11 |->
        IF i = 10 THEN Line(<<<<"c">>, <<"n">>, <<"t">>, <<"d">>, <<"f">>>>)
        ELSE <<"-", "\n">>]

\* the index the remote service holds for a unit: the same company files its
\* annual report in the first quarter, an amended copy of it is listed under
\* another file name in the third, and a second company files in the fourth
RemoteIndex(u) ==
    Preamble \o
    CASE u[2] = 1 ->
            <<Line(<<Cik07, <<"C">>, Form10K, DateIn(u[1], <<"0", "1">>), File1>>)>>
      [] u[2] = 2 ->
            <<Line(<<Cik07, <<"C">>, Form10Q, DateIn(u[1], <<"0", "4">>), File1>>)>>
      [] u[2] = 3 ->
            <<Line(<<Cik07, <<"C">>, Form10K, DateIn(u[1], <<"0", "1">>), File2>>),
              Line(<<Cik8, <<"D">>, Form10KA, DateIn(u[1], <<"0", "7">>), File1>>)>>
      [] OTHER ->
            <<Line(<<Cik8, <<"D">>, Form10K, DateIn(u[1], <<"1", "0">>), File2>>)>>

(***************************************************************************)
(* Index Synchronizer: the response of the index endpoint.                 *)
(***************************************************************************)
\* response.content of a 200 answer for a unit's master.idx
IndexBody(u, r) == IF r = "ok" THEN RemoteIndex(u) ELSE Empty

\* the index files after the response was handled: on status 200,
\* open(file_path, 'wb') and f.write(response.content); a write that raises
\* midway leaves the body without its last line
IndexAfter(ix, u, o) ==
    IF Is200(o[1])
    THEN CASE o[2] = "written" -> (u :> IndexBody(u, o[1])) @@ ix
           [] o[2] = "write_error" ->
                (u :> (IF o[1] = "ok"
                       THEN SubSeq(IndexBody(u, o[1]), 1,
                                   Len(IndexBody(u, o[1])) - 1)
                       ELSE Empty)) @@ ix
           [] OTHER -> ix
    ELSE ix

\* whether the handled response left no file at the unit's path
LeavesNoFile(o) == ~Is200(o[1]) \/ o[2] = "open_error"


(***************************************************************************)
(* State.                                                                  *)
(***************************************************************************)
VARIABLES
    main,         \* main.download_data: the call it is to make next
    run,          \* how many times the entry point (or the command) was run
    config,       \* config/config.yaml: whether it is there, what it sets
    pc,           \* where the running entry point is
    start_year,   \* download_master_files: argument
    end_year,     \* download_master_files: argument
    year,         \* download_master_files: outer loop variable
    qi,           \* download_master_files: position in qtr_range (1-based)
    total_tasks,  \* download_master_files: total of the progress bar
    pbar,         \* number of pbar.update(1) calls of the open progress bar
    idx,          \* index files on disk: unit -> its lines
    dirs,         \* directories on disk (os.makedirs)
    files,        \* filing files on disk: path -> content
    csv,          \* the filing list file: <<its rows>>, or <<>> for no file
    remote,       \* the remote service: filing url -> the answer it gave
    inflight,     \* urls of GET requests sent and not yet answered
    gets,         \* GET requests issued by the running entry point
    sleeps,       \* time.sleep calls completed by the running entry point
    faults,       \* failed index fetches and failed writes in the behaviour
    owed,         \* observer: a GET was issued and no sleep has followed
    filings_list, \* generate_filings_list: the list it built
    filings_df,   \* download_filings: the rows read from the filing list
    index,        \* download_filings: position of the loop (1-based)
    total_files,  \* download_filings: len(filings_df)
    downloaded,   \* download_filings: counter
    skipped,      \* download_filings: counter
    failed,       \* download_filings: counter
    processed,    \* observer: units or rows the run has reached, in order
    failed_units, \* observer: units whose fetch of the run left no file
    snap,         \* observer: idx, dirs, files when the stage was called
    first,        \* observer: dirs, files at the first call of download_filings
    prev,         \* observer: summary of the previous run of the entry point
    llm_config,   \* FinancialDataExtractor: api_key, cache_responses
    cache,        \* the files of cache_dir, by path
    ex,           \* the call of extract_from_filing: its position and locals
    mp,           \* the call of generate_cik_ticker_mapping and its files
    fr,           \* sec_data_processor.generate_and_download_filings, run on
                  \* a copy of the directory tree: its list, files and GETs
    px,           \* the call of download_daily_stock_prices: its arguments,
                  \* output_dir, position and locals
    vc            \* the call of validate_and_combine: the dict objects, its
                  \* arguments and locals

extVars == <<llm_config, cache, ex>>
mapVars == <<mp>>
twinVars == <<fr>>
priceVars == <<px>>
combineVars == <<vc>>
notExtVars == <<mapVars, twinVars, priceVars, combineVars>>
notMapVars == <<extVars, twinVars, priceVars, combineVars>>
notPriceVars == <<extVars, mapVars, twinVars, combineVars>>
notCombineVars == <<extVars, mapVars, twinVars, priceVars>>
toolVars == <<extVars, mapVars, twinVars, priceVars, combineVars>>
cfgVars == <<config, toolVars>>
mainVars == <<main, run, cfgVars>>
syncVars == <<start_year, end_year, year, qi, total_tasks>>
fsVars == <<idx, dirs, files, csv>>
netVars == <<inflight, gets, sleeps, owed>>
dlVars == <<filings_df, index, total_files, downloaded, skipped, failed>>
obsVars == <<processed, failed_units, snap, first, prev>>
vars == <<mainVars, pc, syncVars, pbar, fsVars, remote, netVars, faults,
          filings_list, dlVars, obsVars>>

NoPrev == [ran |-> FALSE, killed |-> FALSE, gets |-> 0, failed |-> {},
           downloaded |-> 0, outcomes |-> <<>>]

NoFirst == [set |-> FALSE]
Snapshot == [idx |-> idx, dirs |-> dirs, files |-> files]

\* a configuration file that sets the base url and the User-Agent
CompleteConfig == [file |-> TRUE, base_url |-> TRUE, user_agent |-> TRUE]

\* Config.get(key_path) without a default: the value, or None when the key
\* is not in the file (KeyError and TypeError are caught); TRUE stands for a
\* value, FALSE for None
ConfigGet(c, key) == c[key]

\* requests.get(url, ...) of a url made from a base url of None, "Noneedgar/...":
\* requests raises MissingSchema before anything is sent
MissingSchema(c) == ~ConfigGet(c, "base_url")

\* None, and a value that is not None
None == <<>>
Some(v) == <<v>>

\* a dict with no entries
EmptyMap == <<>>

\* no call of extract_from_filing has been made
NoCall ==
    [pc |-> "idle", cik |-> <<>>, year |-> <<>>, readable |-> FALSE,
     cached_data |-> None, metrics |-> EmptyMap, ret |-> None, trace |-> <<>>]

\* FinancialDataExtractor(): a key is configured, responses are cached, and
\* cache_dir is empty
ExtractorFresh ==
    /\ llm_config = [api_key |-> TRUE, cache_responses |-> TRUE]
    /\ cache = <<>>
    /\ ex = NoCall

\* the download stages of a fresh checkout before any entry point has run
FreshProcess ==
    /\ run = 0
    /\ pc = "ready"
    /\ year = start_year
    /\ qi = 1
    /\ total_tasks = 0
    /\ pbar = 0
    /\ dirs = {}
    /\ files = <<>>
    /\ inflight = {}
    /\ gets = 0
    /\ sleeps = 0
    /\ faults = 0
    /\ owed = FALSE
    /\ filings_list = <<>>
    /\ filings_df = <<>>
    /\ index = 1
    /\ total_files = 0
    /\ downloaded = 0
    /\ skipped = 0
    /\ failed = 0
    /\ processed = <<>>
    /\ failed_units = {}
    /\ snap = Snapshot
    /\ first = NoFirst
    /\ prev = NoPrev

\* no call of generate_cik_ticker_mapping has been made; there are no CIK
\* folders and no listings
NoMapping ==
    [pc |-> "idle", folders |-> {}, json_file |-> None, txt_file |-> None,
     my_ciks |-> <<>>, error |-> "", output_file |-> None]

\* generate_and_download_filings has not been called
NoFreeRun == [pc |-> "idle", list |-> <<>>, files |-> <<>>, gets |-> <<>>]

\* download_daily_stock_prices was not called; its defaults
NoPrices ==
    [pc |-> "idle", df |-> <<>>, batch_size |-> 1, out |-> {}, rows |-> <<>>,
     i |-> 0, batch |-> <<>>, got |-> {}]

\* validate_and_combine was not called and no dict was made for it.  heap
\* holds the dict objects, a reference is a position in it, 0 is no object
NoCombine ==
    [pc |-> "idle", heap |-> <<>>, xbrl_metrics |-> 0, llm_metrics |-> 0,
     order |-> <<>>, combined |-> 0, items |-> <<>>, ret |-> 0, args |-> <<>>]

\* the data directory and the process of a fresh checkout before any entry
\* point has run
FreshDisk ==
    /\ FreshProcess
    /\ ExtractorFresh
    /\ mp = NoMapping
    /\ fr = NoFreeRun
    /\ px = NoPrices
    /\ vc = NoCombine

\* the state of a fresh checkout before any entry point has run
Fresh ==
    /\ config = CompleteConfig
    /\ FreshDisk

(***************************************************************************)
(* Index Synchronizer: download_master_files(start_year, end_year).        *)
(***************************************************************************)
\* the call: total_tasks is computed, the progress bar opened, the loop entered
CallSync ==
    /\ total_tasks' = TotalTasks(start_year, end_year)
    /\ pbar' = 0
    /\ year' = start_year
    /\ qi' = 1
    /\ pc' = IF start_year <= end_year THEN "sync_unit" ELSE "sync_done"
    /\ gets' = 0
    /\ sleeps' = 0
    /\ processed' = <<>>
    /\ failed_units' = {}
    /\ snap' = Snapshot
    /\ prev' = IF pc = "sync_done"
               THEN [ran |-> TRUE, killed |-> FALSE, gets |-> gets,
                     failed |-> failed_units, downloaded |-> 0,
                     outcomes |-> <<>>]
               ELSE NoPrev
    /\ UNCHANGED <<start_year, end_year, fsVars, remote, inflight, owed,
                   faults, filings_list, dlVars, first>>

CurUnit == Unit(year, qi)

\* os.makedirs(year_dir), os.makedirs(qtr_dir)
SyncDirs(u) ==
    {<<"index", Decimal(u[1])>>, <<"index", Decimal(u[1]), <<quarters[u[2]]>>>>}

\* the end of one pass of the inner loop: pbar.update(1), then the next
\* quarter of qtr_range or the next year of range(start_year, end_year + 1)
SyncAdvance ==
    /\ pbar' = pbar + 1
    /\ IF qi < Len(QtrRange(year, start_year, end_year))
       THEN /\ qi' = qi + 1
            /\ year' = year
            /\ pc' = "sync_unit"
       ELSE /\ qi' = 1
            /\ year' = year + 1
            /\ pc' = IF year + 1 <= end_year THEN "sync_unit" ELSE "sync_done"

\* SyncFileExists with the test left out: every unit is fetched
SyncFileExistsNever(u) == FALSE

\* SyncFileExists with the downloader's test: a file of size zero does not
\* count
SyncFileExistsNonEmpty(u) == u \in DOMAIN idx /\ idx[u] # <<>>

\* os.path.exists(file_path)
SyncFileExists(u) == u \in DOMAIN idx

\* the file is there: no request, no sleep
SyncSkip ==
    /\ pc = "sync_unit"
    /\ SyncFileExists(CurUnit)
    /\ dirs' = dirs \cup SyncDirs(CurUnit)
    /\ processed' = Append(processed, CurUnit)
    /\ SyncAdvance
    /\ UNCHANGED <<mainVars, start_year, end_year, total_tasks, idx, files,
                   csv, remote, netVars, faults, filings_list, dlVars,
                   failed_units, snap, first, prev>>

\* the file is not there: requests.get(url, headers=self.headers) is called
SyncGet ==
    /\ pc = "sync_unit"
    /\ ~SyncFileExists(CurUnit)
    /\ dirs' = dirs \cup SyncDirs(CurUnit)
    /\ processed' = Append(processed, CurUnit)
    /\ inflight' = IF MissingSchema(config) THEN inflight
                    ELSE inflight \cup {IndexUrl(CurUnit)}
    /\ gets' = gets + 1
    /\ owed' = TRUE
    /\ pc' = "sync_wait"
    /\ UNCHANGED <<mainVars, syncVars, pbar, idx, files, csv, remote, sleeps,
                   faults, filings_list, dlVars, failed_units, snap, first,
                   prev>>

\* AfterSyncTry with an except clause that does not catch what requests.get,
\* open and f.write raise
AfterSyncTryUncaught(o) ==
    IF o[1] = "exception" \/ o[2] \in {"open_error", "write_error"}
    THEN "crashed" ELSE "sync_sleep"

\* AfterSyncTry with the unit tried again when the fetch left no file
AfterSyncTryRetry(o) ==
    IF ~Is200(o[1]) \/ o[2] = "open_error" THEN "sync_unit" ELSE "sync_sleep"

\* where control is after the try statement: the else branch logs a non-200
\* status, 'except Exception' catches what requests.get, open and f.write
\* raise and logs it; in every case the statement after the try is next
AfterSyncTry(o) == "sync_sleep"

\* requests.get returns or raises; status 200 writes the file, anything else
\* is logged
SyncResponse ==
    /\ pc = "sync_wait"
    /\ \E o \in Outcomes :
        /\ MissingSchema(config) => o = <<"exception", "none">>
        /\ (IsFault(o) /\ ~MissingSchema(config)) => faults < MaxFaults
        /\ faults' = IF IsFault(o) /\ ~MissingSchema(config) THEN faults + 1
                      ELSE faults
        /\ idx' = IndexAfter(idx, CurUnit, o)
        /\ failed_units' = IF LeavesNoFile(o) THEN failed_units \cup {CurUnit}
                           ELSE failed_units
        /\ pc' = AfterSyncTry(o)
    /\ inflight' = inflight \ {IndexUrl(CurUnit)}
    /\ UNCHANGED <<mainVars, syncVars, pbar, dirs, files, csv, remote, gets,
                   sleeps, owed, filings_list, dlVars, processed, snap, first,
                   prev>>

\* SyncSleep with the delay left out
SyncSleepForgotten ==
    /\ pc = "sync_sleep"
    /\ SyncAdvance
    /\ UNCHANGED <<mainVars, start_year, end_year, total_tasks, fsVars, remote,
                   netVars, faults, filings_list, dlVars, obsVars>>

\* time.sleep(self.rate_limit_delay), in the branch that made the request
SyncSleep ==
    /\ pc = "sync_sleep"
    /\ sleeps' = sleeps + 1
    /\ owed' = FALSE
    /\ SyncAdvance
    /\ UNCHANGED <<mainVars, start_year, end_year, total_tasks, fsVars, remote,
                   inflight, gets, faults, filings_list, dlVars, obsVars>>

SyncSteps == SyncSkip \/ SyncGet \/ SyncResponse \/ SyncSleep

(***************************************************************************)
(* Filing List Builder: generate_filings_list().                           *)
(***************************************************************************)
\* the whole call: the index files on disk are parsed and the list is written
\* to output_file
CallBuild ==
    /\ IF ~ConfigGet(config, "base_url") /\ GenerateFilingsList(idx, BaseUrl) # <<>>
       THEN \* self.base_url + parts[4] of the first line that qualifies, with
            \* a base url of None: TypeError, which nothing catches
            /\ pc' = "crashed"
            /\ UNCHANGED <<filings_list, csv>>
       ELSE /\ filings_list' = GenerateFilingsList(idx, BaseUrl)
            /\ csv' = <<ToCsv(filings_list')>>
            /\ pc' = "build_done"
    /\ snap' = Snapshot
    /\ UNCHANGED <<syncVars, pbar, idx, dirs, files, remote, netVars, faults,
                   dlVars, processed, failed_units, first, prev>>

(***************************************************************************)
(* Filing Corpus Downloader: download_filings().                           *)
(***************************************************************************)
\* the ghost summary of the run of the downloader that ended before this call
PrevDownload ==
    IF pc \in {"dl_done", "killed"}
    THEN [ran |-> TRUE, killed |-> pc = "killed", gets |-> 0,
          failed |-> {}, downloaded |-> downloaded, outcomes |-> processed]
    ELSE NoPrev

\* pd.read_csv(filings_list_file) of the file to_csv wrote for a list of no
\* records, which has no header line: read_csv raises EmptyDataError and
\* nothing catches it
ReadCsvRaises ==
    /\ csv[1] = <<>>
    /\ pc' = "crashed"
    /\ snap' = Snapshot
    /\ prev' = PrevDownload
    /\ UNCHANGED <<syncVars, pbar, fsVars, remote, netVars, faults,
                   filings_list, dlVars, processed, failed_units, first>>

\* the filing list is read, the counters are zeroed, the loop entered
EnterDownloadLoop ==
    /\ csv[1] # <<>>
    /\ filings_df' = ReadCsv(csv[1])
    /\ total_files' = Len(filings_df')
    /\ downloaded' = 0
    /\ skipped' = 0
    /\ failed' = 0
    /\ index' = 1
    /\ pbar' = 0
    /\ gets' = 0
    /\ sleeps' = 0
    /\ processed' = <<>>
    /\ snap' = Snapshot
    /\ first' = IF first.set THEN first
                ELSE [set |-> TRUE, dirs |-> dirs, files |-> files]
    /\ prev' = PrevDownload
    /\ pc' = "dl_unit"
    /\ UNCHANGED <<syncVars, fsVars, remote, inflight, owed, faults,
                   filings_list, failed_units>>

\* the call, for a filing list file that exists
CallDownload ==
    /\ csv # <<>>
    /\ (ReadCsvRaises \/ EnterDownloadLoop)

CurRow == filings_df[index]

\* the end of one pass of the loop: pbar.update(1), the next row of iterrows()
DlAdvance ==
    /\ pbar' = pbar + 1
    /\ index' = index + 1
    /\ pc' = IF index + 1 > Len(filings_df) THEN "dl_done" ELSE "dl_unit"

\* DlSkip without skipped += 1
DlSkipUncounted ==
    /\ pc = "dl_unit"
    /\ ShouldSkip(files, FilePath(CurRow))
    /\ dirs' = dirs \cup SaveDirs(CurRow)
    /\ processed' = Append(processed, "skipped")
    /\ DlAdvance
    /\ UNCHANGED <<mainVars, syncVars, idx, files, csv, remote, netVars,
                   faults, filings_list, filings_df, total_files, downloaded,
                   skipped, failed, failed_units, snap, first, prev>>

\* the file is there and not empty: skipped += 1; continue
DlSkip ==
    /\ pc = "dl_unit"
    /\ ShouldSkip(files, FilePath(CurRow))
    /\ dirs' = dirs \cup SaveDirs(CurRow)
    /\ skipped' = skipped + 1
    /\ processed' = Append(processed, "skipped")
    /\ DlAdvance
    /\ UNCHANGED <<mainVars, syncVars, idx, files, csv, remote, netVars,
                   faults, filings_list, filings_df, total_files, downloaded,
                   failed, failed_units, snap, first, prev>>

\* the directories os.makedirs(save_dir) may have created when it raises:
\* none, or the directories above save_dir from the top down
PartialSaveDirs(row) ==
    {{}, {<<"filings">>}, {<<"filings">>, <<"filings", row.CIK>>}}

\* os.makedirs(save_dir, exist_ok=True) raises (no permission, no space, a
\* file in the place of a directory) when it has a directory to create: the
\* statement is before the try statement, nothing catches the exception and
\* download_filings ends by it
DlMakedirsRaises ==
    /\ pc = "dl_unit"
    /\ ~(SaveDirs(CurRow) \subseteq dirs)
    /\ faults < MaxFaults
    /\ faults' = faults + 1
    /\ \E made \in PartialSaveDirs(CurRow) : dirs' = dirs \cup made
    /\ pc' = "crashed"
    /\ UNCHANGED <<mainVars, syncVars, pbar, idx, files, csv, remote, netVars,
                   filings_list, dlVars, obsVars>>

\* otherwise requests.get(url, headers=self.headers) is called
DlGet ==
    /\ pc = "dl_unit"
    /\ ~ShouldSkip(files, FilePath(CurRow))
    /\ dirs' = dirs \cup SaveDirs(CurRow)
    /\ inflight' = inflight \cup {CurRow.URL}
    /\ gets' = gets + 1
    /\ owed' = TRUE
    /\ pc' = "dl_wait"
    /\ UNCHANGED <<mainVars, syncVars, pbar, idx, files, csv, remote, sleeps,
                   faults, filings_list, dlVars, obsVars>>

\* requests.get returns or raises: status 200 writes the body and counts the
\* record as downloaded, anything else (an exception of the write included)
\* counts it as failed
DlResponse ==
    /\ pc = "dl_wait"
    /\ \E o \in Outcomes :
        /\ o[1] \in Answers(remote, CurRow.URL)
        /\ remote' = (CurRow.URL :> o[1]) @@ remote
        /\ o[2] \notin {"written", "none"} => faults < MaxFaults
        /\ faults' = IF o[2] \notin {"written", "none"} THEN faults + 1
                     ELSE faults
        /\ files' = IF Is200(o[1])
                    THEN WriteFile(files, FilePath(CurRow),
                                   FilingBody(CurRow.URL, o[1]), o[2])
                    ELSE files
        /\ downloaded' = IF FetchOutcome(o) = "downloaded" THEN downloaded + 1
                         ELSE downloaded
        /\ failed' = IF FetchOutcome(o) = "failed" THEN failed + 1 ELSE failed
        /\ processed' = Append(processed, FetchOutcome(o))
    /\ inflight' = inflight \ {CurRow.URL}
    /\ pc' = "dl_sleep"
    /\ UNCHANGED <<mainVars, syncVars, pbar, idx, dirs, csv, gets, sleeps,
                   owed, filings_list, filings_df, index, total_files, skipped,
                   failed_units, snap, first, prev>>

\* DlSleep with the delay left out
DlSleepForgotten ==
    /\ pc = "dl_sleep"
    /\ DlAdvance
    /\ UNCHANGED <<mainVars, syncVars, fsVars, remote, netVars, faults,
                   filings_list, filings_df, total_files, downloaded, skipped,
                   failed, obsVars>>

\* time.sleep(self.rate_limit_delay), after the try statement
DlSleep ==
    /\ pc = "dl_sleep"
    /\ sleeps' = sleeps + 1
    /\ owed' = FALSE
    /\ DlAdvance
    /\ UNCHANGED <<mainVars, syncVars, fsVars, remote, inflight, gets, faults,
                   filings_list, filings_df, total_files, downloaded, skipped,
                   failed, obsVars>>

\* the process is terminated while download_filings runs (between two
\* statements: the write of a body is not cut); its connection is closed
Kill ==
    /\ pc \in {"dl_unit", "dl_wait", "dl_sleep"}
    /\ pc' = "killed"
    /\ inflight' = {}
    /\ UNCHANGED <<mainVars, syncVars, pbar, fsVars, remote, gets, sleeps,
                   owed, faults, filings_list, dlVars, obsVars>>

DlSteps == DlSkip \/ DlGet \/ DlResponse \/ DlSleep \/ DlMakedirsRaises

(***************************************************************************)
(* Inputs.                                                                 *)
(***************************************************************************)
\* number of rows of a filing list handed to download_filings
MaxList == 3
\* number of lines after the preamble of an index file handed to the builder
MaxData == 2

Row(cik, date, file) ==
    [CIK |-> cik, Company |-> <<"C">>, Form |-> Form10K, Date |-> date,
     URL |-> BaseUrl \o file]

\* rows of a filing list: two of them are the same filing under two urls
RecordPool ==
    {Row(Cik07, DateIn(2010, <<"0", "1">>), File1),
     Row(Cik07, DateIn(2010, <<"0", "1">>), File2),
     Row(Cik8, DateIn(2010, <<"1", "0">>), File2)}

SeqsUpTo(S, n) == UNION {[1..k -> S] : k \in 0..n}

NoIndex == <<>>
\* the directory tree holding the index file of one unit from an earlier run
OneIndex(u) == (u :> RemoteIndex(u))

(***************************************************************************)
(* The synchronizer alone, called up to MaxRuns times with the same        *)
(* arguments.                                                              *)
(***************************************************************************)
InitSync ==
    /\ main = "none"
    /\ start_year \in Years
    /\ end_year \in Years
    /\ idx = NoIndex
    /\ csv = <<>>
    /\ remote = <<>>
    /\ Fresh

\* no entry point is executing: none was called yet, or the last one called
\* returned, raised or was terminated
Idle ==
    /\ main \in {"none", "return"}
    /\ pc \in {"ready", "sync_done", "build_done", "dl_done", "killed",
              "crashed"}

RunSync ==
    /\ Idle
    /\ run < MaxRuns
    /\ run' = run + 1
    /\ CallSync
    /\ UNCHANGED <<main, cfgVars>>

NextSync == RunSync \/ SyncSkip \/ SyncGet \/ SyncResponse \/ SyncSleep

SpecSync == InitSync /\ [][NextSync]_vars

(***************************************************************************)
(* The downloader alone on a given filing list, run up to MaxRuns times,   *)
(* a run ending by itself or by the process being terminated.              *)
(***************************************************************************)
InitDl ==
    /\ main = "none"
    /\ start_year = BuilderFirstYear
    /\ end_year = BuilderFirstYear
    /\ idx = NoIndex
    /\ csv \in {<<ToCsv(l)>> : l \in SeqsUpTo(RecordPool, MaxList)}
    /\ remote = <<>>
    /\ Fresh

RunDownload ==
    /\ Idle
    /\ run < MaxRuns
    /\ run' = run + 1
    /\ CallDownload
    /\ UNCHANGED <<main, cfgVars>>

NextDl ==
    \/ RunDownload \/ DlSkip \/ DlGet \/ DlResponse \/ DlSleep
    \/ DlMakedirsRaises \/ Kill

SpecDl == InitDl /\ [][NextDl]_vars

(***************************************************************************)
(* main.download_data: the three stages in the order of its statements.    *)
(***************************************************************************)
InitPipe ==
    /\ main = "download_master_files"
    /\ start_year \in Years
    /\ end_year \in Years
    /\ idx \in {NoIndex, OneIndex(Unit(start_year, 1))}
    /\ csv = <<>>
    /\ remote = <<>>
    /\ Fresh

\* downloader.download_master_files(start_year, end_year)
MainSync ==
    /\ main = "download_master_files"
    /\ pc = "ready"
    /\ run' = run + 1
    /\ main' = "generate_filings_list"
    /\ UNCHANGED cfgVars
    /\ CallSync

\* MainBuild called while the synchronizer is still between two units
MainBuildEarly ==
    /\ main = "generate_filings_list"
    /\ pc \in {"sync_unit", "sync_done"}
    /\ main' = "download_filings"
    /\ CallBuild
    /\ UNCHANGED <<run, cfgVars>>

\* downloader.generate_filings_list()
MainBuild ==
    /\ main = "generate_filings_list"
    /\ pc = "sync_done"
    /\ main' = "download_filings"
    /\ CallBuild
    /\ UNCHANGED <<run, cfgVars>>

\* downloader.download_filings()
MainDownload ==
    /\ main = "download_filings"
    /\ pc = "build_done"
    /\ main' = "return"
    /\ CallDownload
    /\ UNCHANGED <<run, cfgVars>>

NextPipe ==
    \/ MainSync \/ SyncSkip \/ SyncGet \/ SyncResponse \/ SyncSleep
    \/ MainBuild
    \/ MainDownload \/ DlSkip \/ DlGet \/ DlResponse \/ DlSleep
    \/ DlMakedirsRaises

SpecPipe == InitPipe /\ [][NextPipe]_vars

(***************************************************************************)
(* The command from the start of the process: the configuration file is    *)
(* loaded when src.utils.config is imported, the downloader is constructed *)
(* from it, and the three stages run.                                       *)
(***************************************************************************)
\* no configuration file; a file that sets or leaves out each of
\* sec_edgar.base_url and sec_edgar.user_agent
Configs ==
    {[file |-> FALSE, base_url |-> FALSE, user_agent |-> FALSE]}
        \cup {[file |-> TRUE, base_url |-> b, user_agent |-> u] :
                 b \in BOOLEAN, u \in BOOLEAN}

InitStart ==
    /\ main = "import"
    /\ config \in Configs
    /\ start_year = BuilderFirstYear
    /\ end_year = BuilderFirstYear
    /\ idx \in {NoIndex, OneIndex(Unit(start_year, 1))}
    /\ csv = <<>>
    /\ remote = <<>>
    /\ FreshDisk

\* config = Config(): _load_config raises FileNotFoundError when the file is
\* not there, and the import of main.py ends with it
LoadConfig ==
    /\ main = "import"
    /\ main' = IF ConfigGet(config, "file") THEN "construct" ELSE "aborted"
    /\ UNCHANGED <<run, cfgVars, pc, syncVars, pbar, fsVars, remote, netVars,
                   faults, filings_list, dlVars, obsVars>>

\* downloader = SECFilingDownloader(): base_url and user_agent are taken from
\* config.get as they come, None included, and the project directory is made
Construct ==
    /\ main = "construct"
    /\ main' = "download_master_files"
    /\ dirs' = dirs \cup {<<"index">>}
    /\ UNCHANGED <<run, cfgVars, pc, syncVars, pbar, idx, files, csv, remote,
                   netVars, faults, filings_list, dlVars, obsVars>>

NextStart ==
    \/ LoadConfig \/ Construct
    \/ MainSync \/ SyncSkip \/ SyncGet \/ SyncResponse \/ SyncSleep
    \/ MainBuild
    \/ MainDownload \/ DlSkip \/ DlGet \/ DlResponse \/ DlSleep
    \/ DlMakedirsRaises

SpecStart == InitStart /\ [][NextStart]_vars

(***************************************************************************)
(* The builder alone on one index file of any content.                     *)
(***************************************************************************)
FillerLine == <<"-", "\n">>
RecordLine ==
    Line(<<Cik07, <<"C">>, Form10K, DateIn(2010, <<"0", "1">>), File1>>)

LinePool ==
    {RecordLine,
     Line(<<Cik07, <<"C">>, Form10Q, DateIn(2010, <<"0", "4">>), File1>>),
     Line(<<Cik07, <<"C">>, Form10KA, DateIn(2010, <<"0", "7">>), File1>>),
     Line(<<Cik07, <<"C">>, Form10K, DateIn(2010, <<"0", "1">>)>>),
     Line(<<Cik8, <<"D">>, Form10K, DateIn(2010, <<"1", "0">>), File2, <<"x">>>>),
     Line(<<Cik07, <<"C">>, <<" ">> \o Form10K, DateIn(2010, <<"0", "1">>), File1>>),
     <<" ">> \o JoinBar(<<Cik8, <<"D">>, Form10K, DateIn(2010, <<"1", "0">>), File2>>)
         \o <<" ">>,
     Line(<<<<>>, <<>>, Form10K, <<>>, <<>>>>),
     <<"\n">>}

\* the lines before the drawn ones: none, or one line fewer than, as many as
\* or one line more than the preamble, all filler or all record lines
HeadLengths == {0, HeaderLines - 1, HeaderLines, HeaderLines + 1}
IndexFiles ==
    {[i \in 1..k |-> h] \o t :
        h \in {FillerLine, RecordLine}, k \in HeadLengths,
        t \in SeqsUpTo(LinePool, MaxData)}

\* the directory tree holding one index file, of the first quarter of a year
OneFile(u, f) == (u :> f)

InitBuild ==
    /\ main = "none"
    /\ start_year = BuilderFirstYear
    /\ end_year = BuilderFirstYear
    /\ idx \in {OneFile(Unit(y, 1), f) : y \in Years, f \in IndexFiles}
    /\ csv = <<>>
    /\ remote = <<>>
    /\ Fresh

RunBuild ==
    /\ Idle
    /\ run < MaxRuns
    /\ run' = run + 1
    /\ CallBuild
    /\ UNCHANGED <<main, cfgVars>>

NextBuild == RunBuild

SpecBuild == InitBuild /\ [][NextBuild]_vars

(***************************************************************************)
(* The builder alone on a directory tree of several index files, of years  *)
(* inside and outside the builder's range, with units left out.            *)
(***************************************************************************)
\* number of index files on disk when the builder is called
MaxIndexFiles == 3

\* an index file that lists the same filing whatever its unit
SameFiling == Preamble \o <<RecordLine>>

\* every (year, quarter) of the model's calendar
CalendarUnits == {Unit(y, q) : y \in Years, q \in DOMAIN quarters}

\* the tree with the units of S on disk: what the service holds for the
\* unit, or the file that lists the same filing
TreeOf(S, k) ==
    [u \in S |-> IF k[u] = "remote" THEN RemoteIndex(u) ELSE SameFiling]

InitTree ==
    /\ main = "none"
    /\ start_year = BuilderFirstYear
    /\ end_year = BuilderFirstYear
    /\ \E S \in {T \in SUBSET CalendarUnits : Cardinality(T) <= MaxIndexFiles} :
         \E k \in [S -> {"remote", "same"}] : idx = TreeOf(S, k)
    /\ csv = <<>>
    /\ remote = <<>>
    /\ Fresh

NextTree == RunBuild

SpecTree == InitTree /\ [][NextTree]_vars

(***************************************************************************)
(* Any sequence of the entry points on one directory tree that starts      *)
(* empty: the download-data command, or the stages called one by one in    *)
(* any order, each up to the bound on the runs.  The year range is a       *)
(* single year of the builder's range; a stage treats each unit and each   *)
(* record alike whatever the size of the grid.                             *)
(***************************************************************************)
Init ==
    /\ main \in {"none", "download_master_files"}
    /\ start_year = BuilderFirstYear
    /\ end_year = BuilderFirstYear
    /\ idx = NoIndex
    /\ csv = <<>>
    /\ remote = <<>>
    /\ Fresh

Next ==
    \/ RunSync \/ MainSync \/ SyncSkip \/ SyncGet \/ SyncResponse \/ SyncSleep
    \/ RunBuild \/ MainBuild
    \/ RunDownload \/ MainDownload
    \/ DlSkip \/ DlGet \/ DlResponse \/ DlSleep \/ DlMakedirsRaises \/ Kill

Spec == Init /\ [][Next]_vars

(***************************************************************************)
(* FinancialDataExtractor.extract_from_filing and its cache.               *)
(***************************************************************************)
\* number of calls of extract_from_filing in one behaviour
MaxCalls == 3

\* the metric maps an answer of the model may hold
MetricMaps ==
    {EmptyMap, ("NetIncomeLoss" :> 1), ("NetIncomeLoss" :> 2),
     ("NetIncomeLoss" :> 1) @@ ("Revenues" :> 2)}

\* what openai.ChatCompletion.create and the search for JSON in its answer
\* come to: an exception (of the call or of json.loads), a text with no
\* braces, or a JSON object
LlmAnswers ==
    {<<"exception", EmptyMap>>, <<"text", EmptyMap>>}
        \cup {<<"json", m>> : m \in MetricMaps}

\* the arguments of the calls: cik, and the one year
ExtractCiks == {Cik07, Cik8}
ExtractYear == Decimal(BuilderFirstYear)

\* os.path.join(self.cache_dir, f"{cik}_{year}.json")
GetCachePath(cik, yr) == cik \o <<"_">> \o yr

\* json.dump(data, f) into the file opened with 'w': the file holds the
\* text of the map, or what was written of it when the write raised
JsonDump(data, d) == IF d = "written" THEN <<"json", data>> ELSE <<"cut", data>>

\* whether json.load(f) of the content returns (it raises on a cut text)
JsonLoads(content) == content[1] = "json"
JsonLoad(content) == content[2]

\* LoadFromCache with the lookup left out: every call is a miss
LoadFromCacheNever(cik, yr) == None

\* _load_from_cache(cik, year): None when caching is off, when there is no
\* file, or when reading it raised (caught and logged)
LoadFromCache(cik, yr) ==
    IF ~llm_config.cache_responses THEN None
    ELSE IF GetCachePath(cik, yr) \in DOMAIN cache
            /\ JsonLoads(cache[GetCachePath(cik, yr)])
         THEN Some(JsonLoad(cache[GetCachePath(cik, yr)]))
         ELSE None

\* IsHit with the truth value of the dict as the test: an empty map is a miss
IsHitTruthy(cached_data) == cached_data # None /\ cached_data[1] # EmptyMap

\* 'if cached_data is not None'
IsHit(cached_data) == cached_data # None

\* _extract_financial_metrics_with_llm(content): {} without an api key, {}
\* when the call or the parse raised or no JSON was found, else the object
ExtractFinancialMetricsWithLlm(answer) ==
    IF ~llm_config.api_key THEN EmptyMap
    ELSE IF answer[1] = "json" THEN answer[2] ELSE EmptyMap

\* the call: extract_from_filing(cik, year, filing_path), for a filing that
\* open() can or cannot read
CallExtract ==
    /\ ex.pc \in {"idle", "returned"}
    /\ run < MaxCalls
    /\ run' = run + 1
    /\ \E cik \in ExtractCiks, readable \in BOOLEAN :
         ex' = [pc |-> "load", cik |-> cik, year |-> ExtractYear,
                readable |-> readable, cached_data |-> None,
                metrics |-> EmptyMap, ret |-> None, trace |-> <<>>]
    /\ UNCHANGED <<main, config, notExtVars, llm_config, cache, pc, syncVars, pbar, fsVars,
                   remote, netVars, faults, filings_list, dlVars, obsVars>>

\* cached_data = self._load_from_cache(cik, year); a hit is returned
ExtractLoad ==
    /\ ex.pc = "load"
    /\ LET cached_data == LoadFromCache(ex.cik, ex.year)
       IN ex' = [ex EXCEPT !.cached_data = cached_data,
                           !.trace = Append(@, "load"),
                           !.ret = IF IsHit(cached_data) THEN cached_data
                                   ELSE None,
                           !.pc = IF IsHit(cached_data) THEN "returned"
                                  ELSE "read"]
    /\ UNCHANGED <<main, run, config, notExtVars, llm_config, cache, pc, syncVars, pbar,
                   fsVars, remote, netVars, faults, filings_list, dlVars,
                   obsVars>>

\* with open(filing_path, 'r', encoding='utf-8'): content = file.read(); an
\* exception is logged and {} returned
ExtractRead ==
    /\ ex.pc = "read"
    /\ ex' = [ex EXCEPT !.trace = Append(@, "read"),
                        !.ret = IF ex.readable THEN None ELSE Some(EmptyMap),
                        !.pc = IF ex.readable THEN "extract" ELSE "returned"]
    /\ UNCHANGED <<main, run, config, notExtVars, llm_config, cache, pc, syncVars, pbar,
                   fsVars, remote, netVars, faults, filings_list, dlVars,
                   obsVars>>

\* metrics = self._extract_financial_metrics_with_llm(content)
ExtractLlm ==
    /\ ex.pc = "extract"
    /\ \E answer \in LlmAnswers :
         ex' = [ex EXCEPT !.metrics = ExtractFinancialMetricsWithLlm(answer),
                          !.trace = Append(@, "extract"),
                          !.pc = "save"]
    /\ UNCHANGED <<main, run, config, notExtVars, llm_config, cache, pc, syncVars, pbar,
                   fsVars, remote, netVars, faults, filings_list, dlVars,
                   obsVars>>

\* self._save_to_cache(cik, year, metrics); return metrics.  Nothing is
\* written when caching is off; an exception of open or of json.dump is
\* logged, and what json.dump had written stays in the file
ExtractSave ==
    /\ ex.pc = "save"
    /\ \E d \in DiskOutcomes :
        /\ d # "written" => (llm_config.cache_responses /\ faults < MaxFaults)
        /\ faults' = IF d # "written" THEN faults + 1 ELSE faults
        /\ cache' = IF llm_config.cache_responses /\ d # "open_error"
                     THEN (GetCachePath(ex.cik, ex.year)
                              :> JsonDump(ex.metrics, d)) @@ cache
                     ELSE cache
    /\ ex' = [ex EXCEPT !.trace = Append(@, "save"),
                        !.ret = Some(ex.metrics),
                        !.pc = "returned"]
    /\ UNCHANGED <<main, run, config, notExtVars, llm_config, pc, syncVars, pbar, fsVars,
                   remote, netVars, filings_list, dlVars, obsVars>>

InitExtract ==
    /\ main = "none"
    /\ config = CompleteConfig
    /\ start_year = BuilderFirstYear
    /\ end_year = BuilderFirstYear
    /\ idx = NoIndex
    /\ csv = <<>>
    /\ remote = <<>>
    /\ FreshProcess
    /\ llm_config \in [api_key : BOOLEAN, cache_responses : BOOLEAN]
    /\ cache = <<>>
    /\ ex = NoCall
    /\ mp = NoMapping
    /\ fr = NoFreeRun
    /\ px = NoPrices
    /\ vc = NoCombine

NextExtract ==
    CallExtract \/ ExtractLoad \/ ExtractRead \/ ExtractLlm \/ ExtractSave

SpecExtract == InitExtract /\ [][NextExtract]_vars

(***************************************************************************)
(* stock_utils.generate_cik_ticker_mapping.                                *)
(***************************************************************************)
\* the width of a CIK in the listings: f"{int(cik):010d}", zfill(10)
CikWidth == 10

\* str.zfill(w)
RECURSIVE ZFill(_, _)
ZFill(s, w) == IF Len(s) >= w THEN s ELSE ZFill(<<"0">> \o s, w)

\* f"{int(cik):010d}" of the name of a folder
FormatCik(cik) == ZFill(IntText(cik), CikWidth)

\* the names the folders of filings_dir may have
FolderPool == {Cik07, Cik8, <<"x">>}

\* a row of a listing
Listed(cik, ticker) == [cik |-> cik, ticker |-> ticker]

\* the "data" of company_tickers_exchange.json, and the rows of ticker.txt
JsonListings ==
    {<<>>, <<Listed(Cik8, "J8")>>, <<Listed(Cik07, "J7"), Listed(Cik8, "J8")>>}
TxtListings == {<<>>, <<Listed(Cik07, "T7"), Listed(Cik8, "T8")>>}

\* the orders in which os.listdir may name the folders
Orders(S) ==
    {o \in [1..Cardinality(S) -> S] : \A f \in S : \E i \in DOMAIN o : o[i] = f}

\* cik_folders = [...os.listdir(filings_dir)...]; my_ciks_df: int(cik) of a
\* name that is not a number raises ValueError, a missing directory
\* FileNotFoundError
CallMapping ==
    /\ mp.pc = "idle"
    /\ IF mp.folders = None
       THEN mp' = [mp EXCEPT !.pc = "raised", !.error = "FileNotFoundError"]
       ELSE IF \E f \in mp.folders[1] : ~IsNumeric(f)
       THEN mp' = [mp EXCEPT !.pc = "raised", !.error = "ValueError"]
       ELSE \E o \in Orders(mp.folders[1]) :
              mp' = [mp EXCEPT !.pc = "open_json",
                               !.my_ciks = [i \in DOMAIN o |-> FormatCik(o[i])]]
    /\ UNCHANGED <<main, run, config, notMapVars, pc, syncVars, pbar, fsVars,
                   remote, netVars, faults, filings_list, dlVars, obsVars>>

\* with open(json_file, 'r') as f: json_data = json.load(f).  The module
\* does not import json: the name is not defined and NameError is raised
\* once the file is open; nothing of the function after this line is
\* reached and output_file is not written
MapLoadJson ==
    /\ mp.pc = "open_json"
    /\ mp' = [mp EXCEPT !.pc = "raised",
                        !.error = IF mp.json_file = None
                                  THEN "FileNotFoundError" ELSE "NameError"]
    /\ UNCHANGED <<main, run, config, notMapVars, pc, syncVars, pbar, fsVars,
                   remote, netVars, faults, filings_list, dlVars, obsVars>>

InitMapping ==
    /\ main = "none"
    /\ config = CompleteConfig
    /\ start_year = BuilderFirstYear
    /\ end_year = BuilderFirstYear
    /\ idx = NoIndex
    /\ csv = <<>>
    /\ remote = <<>>
    /\ FreshProcess
    /\ ExtractorFresh
    /\ fr = NoFreeRun
    /\ px = NoPrices
    /\ vc = NoCombine
    /\ \E folders \in {None} \cup {Some(S) : S \in SUBSET FolderPool},
          json_file \in {None} \cup {Some(l) : l \in JsonListings},
          txt_file \in {None} \cup {Some(l) : l \in TxtListings} :
         mp = [NoMapping EXCEPT !.folders = folders, !.json_file = json_file,
                                !.txt_file = txt_file]

NextMapping == CallMapping \/ MapLoadJson

SpecMapping == InitMapping /\ [][NextMapping]_vars

(***************************************************************************)
(* sec_data_processor.generate_and_download_filings, the free-function     *)
(* builder and downloader, beside the class on the same index files and    *)
(* the same remote answers.  It works on its own copy of the filings       *)
(* directory, which starts as empty as the one of the class.               *)
(***************************************************************************)
\* years = range(1994, 2026)
FreeFirstYear == 1994

\* the first year of the free function's loop that the model's calendar has
FreeStartYear ==
    LET lo == CHOOSE y \in Years : \A z \in Years : y <= z
    IN IF FreeFirstYear > lo THEN FreeFirstYear ELSE lo

\* Step 1: the same loops and the same test of a line as the class, over
\* range(1994, 2026)
FreeGenerateFilingsList(ix, base_url) == ParseFrom(ix, FreeStartYear, 1, base_url)

\* Step 2: for index, row in filings_df.iterrows() over the DataFrame made
\* of the list itself (no file is read back); answers gives the response
\* to the GET of each url; the result is the files and the urls requested
RECURSIVE FreeDownload(_, _, _, _, _)
FreeDownload(rows, i, fs, requested, answers) ==
    IF i > Len(rows) THEN [files |-> fs, gets |-> requested]
    ELSE IF ShouldSkip(fs, FilePath(rows[i]))
    THEN FreeDownload(rows, i + 1, fs, requested, answers)
    ELSE FreeDownload(rows, i + 1,
                      IF Is200(answers[rows[i].URL])
                      THEN WriteFile(fs, FilePath(rows[i]),
                                     FilingBody(rows[i].URL,
                                                answers[rows[i].URL]),
                                     "written")
                      ELSE fs,
                      Append(requested, rows[i].URL), answers)

\* the urls of a list
UrlsOf(list) == {list[i].URL : i \in DOMAIN list}

\* generate_and_download_filings(): the list is built and written, then each
\* record is skipped or fetched; the remote service answers every url as it
\* did or will do for the class
GenerateAndDownloadFilings ==
    /\ fr.pc = "idle"
    /\ LET list == FreeGenerateFilingsList(idx, BaseUrl)
       IN \E answers \in [UrlsOf(list) -> Responses] :
            /\ \A u \in UrlsOf(list) : answers[u] \in Answers(remote, u)
            /\ remote' = answers @@ remote
            /\ LET r == FreeDownload(list, 1, <<>>, <<>>, answers)
               IN fr' = [pc |-> "done", list |-> list, files |-> r.files,
                         gets |-> r.gets]
    /\ UNCHANGED <<main, run, config, extVars, mapVars, priceVars,
                   combineVars, pc, syncVars, pbar, fsVars, netVars, faults,
                   filings_list, dlVars, obsVars>>

\* the index files of the last quarter of the year before the builder's
\* range and of the first and third quarter of its first year, which list
\* the same filing under two urls
TwinUnits ==
    {Unit(BuilderFirstYear - 1, 4), Unit(BuilderFirstYear, 1),
     Unit(BuilderFirstYear, 3)}

InitTwin ==
    /\ main = "none"
    /\ start_year = BuilderFirstYear
    /\ end_year = BuilderFirstYear
    /\ \E S \in SUBSET TwinUnits : idx = [u \in S |-> RemoteIndex(u)]
    /\ csv = <<>>
    /\ remote = <<>>
    /\ Fresh

NextTwin ==
    \/ RunBuild \/ RunDownload
    \/ DlSkip \/ DlGet \/ DlResponse \/ DlSleep \/ DlMakedirsRaises
    \/ GenerateAndDownloadFilings

SpecTwin == InitTwin /\ [][NextTwin]_vars

(***************************************************************************)
(* stock_utils.download_daily_stock_prices: the consolidated stock list is *)
(* read, the tickers that have a csv file in output_dir are left out, and  *)
(* the price history of each of the others is fetched and saved in         *)
(* batches.                                                                *)
(***************************************************************************)
\* number of rows of the consolidated stock list
MaxTickers == 3

TickerNames == <<"AAA", "BRK.B", "CCC", "DDD", "EEE">>
Ticker(k) == TickerNames[k]
NotFound == "Not Found"
NaN == "nan"
IpoDate == "2010-01-04"

\* the rows row k of consolidated_stock_list.csv is drawn from: a ticker with
\* an ipo date, with "Not Found" or with an empty cell, or no ticker found
StockRows(k) ==
    {[ticker |-> Ticker(k), ipo_date |-> d] : d \in {IpoDate, NotFound, NaN}}
        \cup {[ticker |-> NotFound, ipo_date |-> IpoDate]}

StockLists ==
    UNION {{l \in [1..n -> UNION {StockRows(k) : k \in 1..n}] :
               \A k \in 1..n : l[k] \in StockRows(k)} : n \in 0..MaxTickers}

\* f.split('.')[0] of the file {ticker}.csv
Stem(t) == IF t = "BRK.B" THEN "BRK" ELSE t

\* existing_files, of the tickers that have a file in output_dir
ExistingFiles(out) == {Stem(t) : t \in out}

\* pd.read_csv(consolidated_file): the rows with the labels of the
\* RangeIndex, 0 for the first
ReadStockList(df) ==
    [k \in DOMAIN df |-> [label |-> k - 1, ticker |-> df[k].ticker,
                          ipo_date |-> df[k].ipo_date]]

\* tickers_to_process: dropna on ipo_date, ticker != 'Not Found', ticker not
\* in existing_files; the rows keep the labels they had in df
TickersToProcess(df, existing) ==
    LET Keep(r) == /\ r.ipo_date # NaN
                   /\ r.ticker # NotFound
                   /\ r.ticker \notin existing
    IN SelectSeq(ReadStockList(df), Keep)

\* what yf.Ticker(ticker).history(start=ipo_date) and the lines after it in
\* the try give: a history with rows, an empty history, an exception
Histories == {"data", "empty", "error"}

PriceRow == px.rows[px.i]

\* the next row of iterrows(), or the end of the loop and the return
PriceAdvance(q) ==
    [q EXCEPT !.i = px.i + 1,
              !.pc = IF px.i + 1 > Len(px.rows) THEN "returned" ELSE "loop"]

\* the batch after the try statement
BatchAfter(h) == IF h = "data" THEN Append(px.batch, PriceRow.ticker) ELSE px.batch

\* len(batch) >= batch_size or index == len(tickers_to_process) - 1, index
\* being the label of the row
SaveDue(batch) ==
    Len(batch) >= px.batch_size \/ PriceRow.label = Len(px.rows) - 1

\* the call up to the loop
CallPrices ==
    /\ px.pc = "idle"
    /\ LET rows == TickersToProcess(px.df, ExistingFiles(px.out))
       IN px' = [px EXCEPT !.rows = rows, !.i = 1, !.batch = <<>>,
                           !.pc = IF rows = <<>> THEN "returned" ELSE "loop"]
    /\ UNCHANGED <<main, run, config, notPriceVars, pc, syncVars, pbar, fsVars,
                   remote, netVars, faults, filings_list, dlVars, obsVars>>

\* a row whose ipo_date is "Not Found": pbar.update(1); continue
PriceSkipRow ==
    /\ px.pc = "loop"
    /\ PriceRow.ipo_date = NotFound
    /\ px' = PriceAdvance(px)
    /\ UNCHANGED <<main, run, config, notPriceVars, pc, syncVars, pbar, fsVars,
                   remote, netVars, faults, filings_list, dlVars, obsVars>>

\* a row that is fetched: the try statement, then the batch is saved if it
\* is due and every to_csv succeeds
PriceFetchRow ==
    /\ px.pc = "loop"
    /\ PriceRow.ipo_date # NotFound
    /\ \E h \in Histories :
         LET batch == BatchAfter(h)
             got == IF h = "data" THEN px.got \cup {PriceRow.ticker} ELSE px.got
         IN px' = IF SaveDue(batch)
                  THEN PriceAdvance([px EXCEPT !.got = got, !.batch = <<>>,
                                       !.out = px.out \cup {batch[j] : j \in DOMAIN batch}])
                  ELSE PriceAdvance([px EXCEPT !.got = got, !.batch = batch])
    /\ UNCHANGED <<main, run, config, notPriceVars, pc, syncVars, pbar, fsVars,
                   remote, netVars, faults, filings_list, dlVars, obsVars>>

\* a row that is fetched, and a to_csv of the save of the batch raises: the
\* files before it are written, nothing catches the exception
PriceToCsvRaises ==
    /\ px.pc = "loop"
    /\ PriceRow.ipo_date # NotFound
    /\ \E h \in Histories :
         LET batch == BatchAfter(h)
             got == IF h = "data" THEN px.got \cup {PriceRow.ticker} ELSE px.got
         IN /\ SaveDue(batch)
            /\ \E k \in 1..Len(batch) :
                 px' = [px EXCEPT !.got = got, !.batch = batch, !.pc = "raised",
                                  !.out = px.out \cup {batch[j] : j \in 1..(k - 1)}]
    /\ UNCHANGED <<main, run, config, notPriceVars, pc, syncVars, pbar, fsVars,
                   remote, netVars, faults, filings_list, dlVars, obsVars>>

InitPrices ==
    /\ main = "none"
    /\ config = CompleteConfig
    /\ start_year = BuilderFirstYear
    /\ end_year = BuilderFirstYear
    /\ idx = NoIndex
    /\ csv = <<>>
    /\ remote = <<>>
    /\ FreshProcess
    /\ ExtractorFresh
    /\ mp = NoMapping
    /\ fr = NoFreeRun
    /\ vc = NoCombine
    /\ \E df \in StockLists, b \in 0..MaxTickers,
          out \in SUBSET {Ticker(k) : k \in 1..MaxTickers} :
         px = [NoPrices EXCEPT !.df = df, !.batch_size = b, !.out = out]

NextPrices == CallPrices \/ PriceSkipRow \/ PriceFetchRow \/ PriceToCsvRaises

SpecPrices == InitPrices /\ [][NextPrices]_vars

(***************************************************************************)
(* FinancialDataExtractor.validate_and_combine: the XBRL map is copied and *)
(* the items of the LLM map whose key the copy lacks are added to it.      *)
(***************************************************************************)
\* number of metric names the two maps draw their keys from
MaxKeys == 2

KeyNames == <<"NetIncomeLoss", "Revenues", "Assets", "Liabilities">>
MetricKeys == {KeyNames[k] : k \in 1..MaxKeys}
MetricValues == {1, 2}

\* the maps of Dict[str, float] over the metric names
Dicts == UNION {[S -> MetricValues] : S \in SUBSET MetricKeys}

\* NotInCombined with the test left out: every item of the LLM map is stored
NotInCombinedAlways(k, d) == TRUE

\* 'if key not in combined'
NotInCombined(k, d) == k \notin DOMAIN d

\* d[k] = v
SetItem(d, k, v) == (k :> v) @@ d

\* combined = xbrl_metrics.copy(), a new dict object, and the start of the
\* iteration of llm_metrics.items(), a view of the llm dict in its order
CallCombine ==
    /\ vc.pc = "idle"
    /\ vc' = [vc EXCEPT !.heap = Append(@, vc.heap[vc.xbrl_metrics]),
                        !.combined = Len(vc.heap) + 1,
                        !.items = vc.order,
                        !.pc = "loop"]
    /\ UNCHANGED <<main, run, config, notCombineVars, pc, syncVars, pbar,
                   fsVars, remote, netVars, faults, filings_list, dlVars,
                   obsVars>>

\* one pass of the loop: the next key of the view with the value the llm
\* dict has for it, stored in combined if combined lacks the key
CombineItem ==
    /\ vc.pc = "loop"
    /\ vc.items # <<>>
    /\ LET key == Head(vc.items)
           value == vc.heap[vc.llm_metrics][key]
       IN vc' = [vc EXCEPT !.heap[vc.combined] =
                               IF NotInCombined(key, @) THEN SetItem(@, key, value)
                               ELSE @,
                           !.items = Tail(@)]
    /\ UNCHANGED <<main, run, config, notCombineVars, pc, syncVars, pbar,
                   fsVars, remote, netVars, faults, filings_list, dlVars,
                   obsVars>>

\* return combined
CombineReturn ==
    /\ vc.pc = "loop"
    /\ vc.items = <<>>
    /\ vc' = [vc EXCEPT !.ret = vc.combined, !.pc = "returned"]
    /\ UNCHANGED <<main, run, config, notCombineVars, pc, syncVars, pbar,
                   fsVars, remote, netVars, faults, filings_list, dlVars,
                   obsVars>>

\* the arguments of the call: two dict objects, or one dict object passed
\* for both parameters, the llm dict in any order of its keys
InitCombine ==
    /\ main = "none"
    /\ config = CompleteConfig
    /\ start_year = BuilderFirstYear
    /\ end_year = BuilderFirstYear
    /\ idx = NoIndex
    /\ csv = <<>>
    /\ remote = <<>>
    /\ FreshProcess
    /\ ExtractorFresh
    /\ mp = NoMapping
    /\ fr = NoFreeRun
    /\ px = NoPrices
    /\ \E x \in Dicts, l \in Dicts, same \in BOOLEAN :
         /\ same => x = l
         /\ \E o \in Orders(DOMAIN l) :
              LET heap == IF same THEN <<x>> ELSE <<x, l>>
              IN vc = [NoCombine EXCEPT !.heap = heap, !.args = heap,
                                        !.xbrl_metrics = 1,
                                        !.llm_metrics = Len(heap),
                                        !.order = o]

NextCombine == CallCombine \/ CombineItem \/ CombineReturn

SpecCombine == InitCombine /\ [][NextCombine]_vars

(***************************************************************************)
(* Properties of the Filing Index Synchronizer.                            *)
(***************************************************************************)
Range(f) == {f[i] : i \in DOMAIN f}

SyncFinished == pc = "sync_done" /\ run > 0
ProcessedUnits == Range(processed)

\* the grid of spec.md for start_year < end_year
GridOf(s, e) ==
    {Unit(y, q) : y \in s..(e - 1), q \in 1..4} \union {Unit(e, 1)}

\* C1: when a run of the synchronizer called with start_year < end_year has
\* finished, the units it processed are the four quarters of every year from
\* start_year to end_year - 1 and the first quarter of end_year, each once and
\* no other: 4 * (end_year - start_year) + 1 units.
C1_GridOfUnits ==
    (SyncFinished /\ start_year < end_year) =>
        /\ ProcessedUnits = GridOf(start_year, end_year)
        /\ Len(processed) = 4 * (end_year - start_year) + 1

\* a run over three years has finished with nine units processed
C1_Witness ==
    /\ SyncFinished
    /\ end_year = start_year + 2
    /\ Len(processed) = 9
    /\ Unit(end_year, 1) \in ProcessedUnits
    /\ Unit(end_year, 2) \notin ProcessedUnits

\* C2: when a run of the synchronizer called with start_year = end_year has
\* finished, it has processed exactly one unit, the first quarter of that
\* year, and made at most one network fetch.
C2_SingleYearSingleUnit ==
    (SyncFinished /\ start_year = end_year) =>
        /\ processed = <<Unit(start_year, 1)>>
        /\ gets <= 1

\* what the loop does for start_year = end_year: the four quarters, while the
\* progress total it computed beforehand is one
C2_SingleYearFourUnits ==
    (SyncFinished /\ start_year = end_year) =>
        /\ processed = [q \in 1..4 |-> Unit(start_year, q)]
        /\ total_tasks = 1
        /\ pbar = 4

\* a run for a single year has finished after four units and four GETs
C2_Witness ==
    /\ SyncFinished
    /\ start_year = end_year
    /\ Len(processed) = 4
    /\ gets = 4
    /\ Unit(start_year, 4) \in DOMAIN idx

\* the file system a run of the synchronizer started from is the one it ended in
SyncLeftAlone ==
    /\ idx = snap.idx
    /\ dirs = snap.dirs
    /\ files = snap.files

\* C3 as stated: a run of the synchronizer that follows a finished run with
\* the same arguments makes no network call and leaves the file system as it
\* was, whatever the outcomes of the first run's fetches.
C3_SecondRunIdleAlways ==
    (SyncFinished /\ prev.ran) => (gets = 0 /\ SyncLeftAlone)

\* C3: a run of the synchronizer that follows a finished run with the same
\* arguments in which every fetch left its file on disk makes no network call
\* and leaves the file system as it was.
C3_SecondRunIdle ==
    (SyncFinished /\ prev.ran /\ prev.failed = {}) =>
        (gets = 0 /\ SyncLeftAlone)

\* a second run has finished after a first run that fetched and left no file
\* missing
C3_Witness ==
    /\ SyncFinished
    /\ prev.ran
    /\ prev.failed = {}
    /\ prev.gets > 0
    /\ Len(processed) > 0

(***************************************************************************)
(* Properties of the skip tests and of the Filing Corpus Downloader.       *)
(***************************************************************************)
\* the path p exists in the file system fs with a size above zero
Satisfied(fs, p) == p \in DOMAIN fs /\ fs[p] # <<>>

\* the step issues a GET
IssuesGet == gets' = gets + 1

\* C4: in any sequence of runs of the stages, a step that issues a GET is
\* taken for a unit whose index file, or for a record whose filing file, is
\* not on disk with a size above zero at that moment.
C4_NoRefetchOfSatisfied ==
    [][IssuesGet =>
          IF pc = "sync_unit" THEN ~Satisfied(idx, CurUnit)
          ELSE pc = "dl_unit" /\ ~Satisfied(files, FilePath(CurRow))]_vars

\* the downloader has skipped a record and now waits for the answer to the
\* GET of a record whose file is on disk with size zero
C4_Witness ==
    /\ pc = "dl_wait"
    /\ skipped > 0
    /\ FilePath(CurRow) \in DOMAIN files
    /\ DOMAIN idx # {}

\* C5: the step the downloader takes for a record whose file is on disk with
\* a size above zero issues no GET, adds one to skipped and leaves
\* downloaded, failed and every file as they were.
C5_SkipStep ==
    [][(pc = "dl_unit" /\ Satisfied(files, FilePath(CurRow)) /\ pc' # "killed")
          => /\ skipped' = skipped + 1
             /\ downloaded' = downloaded
             /\ failed' = failed
             /\ files' = files
             /\ gets' = gets
             /\ inflight' = inflight
             /\ index' = index + 1]_vars

\* a record was skipped after another was downloaded in the same run
C5_Witness ==
    /\ pc \in {"dl_unit", "dl_done"}
    /\ skipped > 0
    /\ downloaded > 0
    /\ processed[Len(processed)] = "skipped"

\* the step is the arrival of a non-200 status or of a transport exception
FetchFails ==
    /\ pc = "dl_wait"
    /\ pc' = "dl_sleep"
    /\ remote'[CurRow.URL] \in {"status", "exception"}

\* C6: a fetch of the downloader that ends with a non-200 status or with a
\* transport exception adds one to failed, leaves downloaded and skipped as
\* they were and does not end the loop: a run that is not terminated
\* finishes with every record of the list processed.
C6_FailureIsolated ==
    /\ [][FetchFails => /\ failed' = failed + 1
                        /\ downloaded' = downloaded
                        /\ skipped' = skipped
                        /\ files' = files]_vars
    /\ [](pc = "dl_done" => /\ Len(processed) = Len(filings_df)
                            /\ index = Len(filings_df) + 1
                            /\ downloaded + skipped + failed = Len(filings_df))

\* a run has finished whose first record failed and whose later records were
\* downloaded
C6_Witness ==
    /\ pc = "dl_done"
    /\ Len(processed) = 3
    /\ processed[1] = "failed"
    /\ processed[3] = "downloaded"
    /\ failed = 1
    /\ faults = 0

\* the file system one pass over the rows from row i on, never terminated,
\* ends with when it starts from fs, the remote service answers by rem and
\* the local disk does not fail; known is FALSE if the pass requests a url
\* that rem has no answer for
RECURSIVE FullRun(_, _, _, _)
FullRun(fs, rows, i, rem) ==
    IF i > Len(rows) THEN [known |-> TRUE, fs |-> fs]
    ELSE LET p == FilePath(rows[i])
             url == rows[i].URL
         IN  IF Satisfied(fs, p) THEN FullRun(fs, rows, i + 1, rem)
             ELSE IF url \notin DOMAIN rem THEN [known |-> FALSE, fs |-> fs]
             ELSE IF rem[url] = "ok"
                  THEN FullRun((p :> <<"body", url>>) @@ fs, rows, i + 1, rem)
             ELSE IF rem[url] = "empty"
                  THEN FullRun((p :> <<>>) @@ fs, rows, i + 1, rem)
             ELSE FullRun(fs, rows, i + 1, rem)

Uninterrupted == FullRun(first.files, filings_df, 1, remote)

AllSaveDirs == UNION {SaveDirs(filings_df[i]) : i \in 1..Len(filings_df)}

Bars(s) == {i \in 1..Len(s) : s[i] = "|"}

\* the position of the n-th separator; 0 before the first, past the end
\* after the last
Bar(s, n) ==
    IF n = 0 THEN 0
    ELSE IF n > Cardinality(Bars(s)) THEN Len(s) + 1
    ELSE CHOOSE i \in Bars(s) : Cardinality({j \in Bars(s) : j <= i}) = n

\* the n-th field of a line, n at most the number of separators plus one
Field(s, n) == SubSeq(s, Bar(s, n - 1) + 1, Bar(s, n) - 1)

\* at least five fields, the third exactly 10-K
Qualifies(s) ==
    /\ Cardinality(Bars(s)) >= 4
    /\ Field(s, 3) = <<"1", "0", "-", "K">>

ExpectedRecord(s) ==
    [CIK |-> Field(s, 1), Company |-> Field(s, 2), Form |-> Field(s, 3),
     Date |-> Field(s, 4), URL |-> BaseUrl \o Field(s, 5)]

\* the records expected of the lines of a file from line i on
RECURSIVE ExpectedFrom(_, _)
ExpectedFrom(lines, i) ==
    IF i > Len(lines) THEN <<>>
    ELSE (IF Qualifies(Strip(lines[i]))
          THEN <<ExpectedRecord(Strip(lines[i]))>> ELSE <<>>)
            \o ExpectedFrom(lines, i + 1)

BuildFinished == pc = "build_done"

\* C8: the list the builder makes of one index file of its year range has,
\* in the order of the lines, one record for each line after the eleventh
\* that, stripped of surrounding whitespace and split at '|', has at least
\* five fields of which the third is exactly 10-K, and nothing else; the
\* record's CIK, Company, Form and Date are fields 1 to 4 and its URL is the
\* base url followed by field 5.
C8_BuilderRecords ==
    BuildFinished =>
        \A u \in DOMAIN idx :
            filings_list = IF u[1] \in BuilderYears
                           THEN ExpectedFrom(idx[u], 12)
                           ELSE <<>>

\* the builder has read a file of twelve record lines followed by a 10-K/A
\* line and made one record, of the twelfth line
C8_Witness ==
    /\ BuildFinished
    /\ Len(filings_list) = 1
    /\ filings_list[1].Form = <<"1", "0", "-", "K">>
    /\ filings_list[1].URL = BaseUrl \o File1
    /\ \E u \in DOMAIN idx :
        /\ Len(idx[u]) = 13
        /\ idx[u][1] = RecordLine
        /\ idx[u][12] = RecordLine
        /\ Field(Strip(idx[u][13]), 3) = <<"1", "0", "-", "K", "/", "A">>

(***************************************************************************)
(* Properties of the rate limit.                                           *)
(***************************************************************************)
BetweenUnits == pc \in {"sync_unit", "sync_done", "dl_unit", "dl_done"}
WithinFetch == pc \in {"sync_wait", "sync_sleep", "dl_wait", "dl_sleep"}

\* C9: in a run of the synchronizer and in a run of the downloader, between
\* two units and at the end of the run as many delays were performed as GETs
\* were issued, whatever the GETs came to and however many units were
\* skipped; from a GET to the end of the delay that follows it the delays are
\* one fewer; and the step that skips a unit performs no delay.
C9_DelayPerGet ==
    /\ [](BetweenUnits => sleeps = gets)
    /\ [](WithinFetch => sleeps + 1 = gets)
    /\ [][(pc = "dl_unit" /\ pc' \in {"dl_unit", "dl_done"})
            => sleeps' = sleeps]_vars
    /\ [][(pc = "sync_unit" /\ pc' \in {"sync_unit", "sync_done"})
            => sleeps' = sleeps]_vars

\* a run of the downloader has finished with a record failed, a record
\* downloaded and a record skipped: two GETs, two delays
C9_Witness ==
    /\ pc = "dl_done"
    /\ failed = 1
    /\ downloaded = 1
    /\ skipped = 1
    /\ gets = 2
    /\ sleeps = 2

\* C10: in a run of the download-data command no GET is issued while
\* another is outstanding, so that at most one request is outstanding, and
\* none is issued before the delay owed for the GET before it, of the same
\* stage or of the stage before, has been performed.
C10_OneRequestAtATime ==
    /\ [](Cardinality(inflight) <= 1)
    /\ [][Cardinality(inflight') > Cardinality(inflight)
            => (inflight = {} /\ ~owed /\ owed')]_vars
    /\ []((BetweenUnits \/ pc = "build_done") => (inflight = {} /\ ~owed))

\* the download-data command waits for the answer to the first GET of the
\* downloader after the synchronizer fetched the last unit of its grid
C10_Witness ==
    /\ main = "return"
    /\ pc = "dl_wait"
    /\ gets = 1
    /\ inflight = {CurRow.URL}
    /\ start_year < end_year
    /\ processed = <<>>
    /\ Unit(end_year, 1) \in DOMAIN idx

(***************************************************************************)
(* Properties of the failures of the Index Synchronizer.                   *)
(***************************************************************************)
\* C11: in a run of the synchronizer the answer to a GET, whether a non-200
\* status, an exception of the transport or an exception of the write of the
\* index file, is followed by the delay and the rest of the loop: the run
\* never ends by an exception, and when it has finished, every unit of the
\* grid was processed.
C11_SyncFailureNotFatal ==
    /\ [][pc = "sync_wait" => pc' = "sync_sleep"]_vars
    /\ [](pc # "crashed")
    /\ []((SyncFinished /\ start_year <= end_year) =>
            GridOf(start_year, end_year) \subseteq ProcessedUnits)

\* a run over three years has finished although the fetch of its second unit
\* failed
C11_Witness ==
    /\ SyncFinished
    /\ end_year = start_year + 2
    /\ failed_units = {Unit(start_year, 2)}
    /\ Unit(start_year, 2) \notin DOMAIN idx
    /\ Unit(end_year, 1) \in DOMAIN idx
    /\ Len(processed) = 9

(***************************************************************************)
(* Properties of the outcomes of the Filing Corpus Downloader.             *)
(***************************************************************************)
InDownloadRun == pc \in {"dl_unit", "dl_wait", "dl_sleep", "dl_done"}

\* the number of records of the run so far whose outcome is o
OutcomeCount(o) == Cardinality({i \in 1..Len(processed) : processed[i] = o})

\* C12: in a run of the downloader the outcomes of the records are settled
\* one record after the other in list order, each as skipped, downloaded or
\* failed, and an outcome once settled stays; each counter is the number of
\* records settled with its outcome, so that downloaded + skipped + failed
\* is the number of records processed, and the length of the list when the
\* loop has finished.
C12_OutcomePerRecord ==
    /\ [](InDownloadRun =>
            /\ downloaded = OutcomeCount("downloaded")
            /\ skipped = OutcomeCount("skipped")
            /\ failed = OutcomeCount("failed")
            /\ downloaded + skipped + failed = Len(processed)
            /\ Len(processed) = IF pc = "dl_sleep" THEN index ELSE index - 1)
    /\ [](pc = "dl_done" =>
            downloaded + skipped + failed = Len(filings_df))
    /\ [][(InDownloadRun /\ run' = run) =>
            \/ processed' = processed
            \/ /\ Len(processed') = Len(processed) + 1
               /\ SubSeq(processed', 1, Len(processed)) = processed
               /\ processed'[Len(processed')]
                    \in {"skipped", "downloaded", "failed"}]_vars

\* a run has finished with its three records downloaded, skipped and failed,
\* in that order
C12_Witness ==
    /\ pc = "dl_done"
    /\ processed = <<"downloaded", "skipped", "failed">>
    /\ downloaded = 1
    /\ skipped = 1
    /\ failed = 1

\* the downloader has just settled the current record as failed
JustFailed ==
    /\ pc = "dl_sleep"
    /\ processed[Len(processed)] = "failed"

\* C13: when the downloader has settled a record as failed, the record's
\* file is absent or of size zero.
C13_FailedLeavesNoFile ==
    JustFailed => ~Satisfied(files, FilePath(CurRow))

\* what holds: a file of a size above zero at the path of a record settled as
\* failed is the part of the body that was on disk when f.write raised
C13_FailedFileIsCutWrite ==
    (JustFailed /\ Satisfied(files, FilePath(CurRow))) =>
        files[FilePath(CurRow)][1] = "partial"

\* the run after a run that settled the only record of the list as failed
\* has skipped the record: its file is the part of a body
C13_Witness ==
    /\ pc = "dl_done"
    /\ prev.ran
    /\ Len(filings_df) = 1
    /\ processed = <<"skipped">>
    /\ faults = 1
    /\ files[FilePath(filings_df[1])][1] = "partial"

\* a run of the downloader has ended by an exception inside its loop
LoopAborted == pc = "crashed" /\ csv # <<>> /\ csv[1] # <<>>

\* C14: no error of one record, the failure to create the record's
\* directory included, ends a run of the downloader: the loop is never left
\* by an exception.
C14_RecordErrorsCaught == ~LoopAborted

\* os.makedirs raised at the second of three records: the run has ended with
\* one record processed, none counted as failed
C14_Witness ==
    /\ LoopAborted
    /\ Len(filings_df) = 3
    /\ index = 2
    /\ processed = <<"downloaded">>
    /\ failed = 0

(***************************************************************************)
(* C15: configuration errors are fatal at startup.                         *)
(***************************************************************************)
\* the process is still at the import, or the import has ended it
AtStartup == main \in {"import", "aborted"}

\* nothing of the three stages has run and nothing was sent
NothingDone ==
    /\ pc = "ready"
    /\ run = 0
    /\ gets = 0
    /\ inflight = {}

\* C15: when the configuration file is missing, or it does not set the
\* User-Agent or the base url, the process is aborted at startup and no
\* request is made.
C15_ConfigErrorsAbort ==
    config # CompleteConfig => (AtStartup /\ NothingDone)

\* the part of C15 the code keeps: without a configuration file the process
\* never leaves the import and no request is made.
C15_MissingFileAborts ==
    ~ConfigGet(config, "file") => (AtStartup /\ NothingDone)

\* the file sets the base url and no User-Agent: the synchronizer has been
\* called and its GET of the first index file is on the wire
C15_Witness ==
    /\ ConfigGet(config, "file")
    /\ ConfigGet(config, "base_url")
    /\ ~ConfigGet(config, "user_agent")
    /\ main = "generate_filings_list"
    /\ pc = "sync_wait"
    /\ inflight = {IndexUrl(Unit(start_year, 1))}

(***************************************************************************)
(* C16: a filing file of non-zero size is kept.                            *)
(***************************************************************************)
\* every path of fs1 with a size above zero is in fs2 with the same content
Kept(fs1, fs2) ==
    \A p \in DOMAIN fs1 :
        Satisfied(fs1, p) => (p \in DOMAIN fs2 /\ fs2[p] = fs1[p])

\* C16: in any sequence of runs of the synchronizer and of the downloader,
\* runs with failed fetches and runs terminated between records included, no
\* step removes or changes a filing file that is on disk with a size above
\* zero, and every file that had a size above zero when a stage was called
\* is still there with the same content.
C16_SatisfiedFilesKept ==
    /\ [][Kept(files, files')]_vars
    /\ [](Kept(snap.files, files))

\* the downloader was terminated after it had written files, and the run
\* after it has ended: it skipped what the terminated run had written and
\* fetched the rest
C16_Witness ==
    /\ pc = "dl_done"
    /\ prev.ran
    /\ prev.killed
    /\ prev.downloaded >= 1
    /\ skipped = prev.downloaded
    /\ downloaded >= 1
    /\ \A i \in DOMAIN filings_df : Satisfied(files, FilePath(filings_df[i]))

(***************************************************************************)
(* C17: an index file is never rewritten.                                  *)
(***************************************************************************)
\* C17: no step of any run of the synchronizer removes an index file that is
\* on disk or changes its content, be the file empty, cut or complete.
C17_IndexFileNeverRewritten ==
    [][\A u \in DOMAIN idx : u \in DOMAIN idx' /\ idx'[u] = idx[u]]_vars

\* a run has gone over the unit of an index file of size zero that the run
\* before it left, without a request
C17_Witness ==
    /\ SyncFinished
    /\ prev.ran
    /\ gets = 0
    /\ \E u \in ProcessedUnits : u \in DOMAIN idx /\ idx[u] = Empty

(***************************************************************************)
(* C18: no retry within a run.                                             *)
(***************************************************************************)
\* the records of the list the run of the downloader has gone past or is at
\* with a request made
RecordsTried == IF pc \in {"dl_wait", "dl_sleep"} THEN index ELSE index - 1

\* C18: within one run a failed fetch is not tried again.  The synchronizer
\* issues a GET only for a unit it has not been at before in the run; the
\* downloader goes through the list forward one record at a time, and the
\* GETs of the run are as many as the records it went through without skipping
\* them, whatever their answers were.
C18_NoRetry ==
    /\ [][(IssuesGet /\ pc = "sync_unit") => CurUnit \notin ProcessedUnits]_vars
    /\ [][(IssuesGet /\ pc = "dl_unit") => gets = (index - 1) - skipped]_vars
    /\ [][(InDownloadRun /\ InDownloadRun' /\ run' = run)
             => index' \in {index, index + 1}]_vars
    /\ [](InDownloadRun => gets + skipped = RecordsTried)
    /\ [](pc = "dl_done" => gets = downloaded + failed)

\* the command has ended after a fetch of the synchronizer failed and a fetch
\* of the downloader failed: the downloader made one GET for each record
\* that it did not skip
C18_Witness ==
    /\ main = "return"
    /\ pc = "dl_done"
    /\ failed_units # {}
    /\ failed >= 1
    /\ downloaded >= 1
    /\ gets = downloaded + failed

(***************************************************************************)
(* C19: the builder over a tree of index files.                            *)
(***************************************************************************)
\* the records expected of the index files of ix whose year is in years, in
\* ascending year, then quarter, then line order, from the unit <<y, q>> on
RECURSIVE ExpectedOfTree(_, _, _, _)
ExpectedOfTree(ix, years, y, q) ==
    IF \A z \in years : z < y THEN <<>>
    ELSE (IF y \in years /\ Unit(y, q) \in DOMAIN ix
          THEN ExpectedFrom(ix[Unit(y, q)], HeaderLines + 1)
          ELSE <<>>)
            \o (IF q < Len(quarters)
                THEN ExpectedOfTree(ix, years, y, q + 1)
                ELSE ExpectedOfTree(ix, years, y + 1, 1))

\* the first year of the model's calendar
FirstYear == CHOOSE y \in Years : \A z \in Years : y <= z

SyncProcessedLast ==
    /\ pc = "sync_done"
    /\ start_year <= end_year =>
         /\ processed # <<>>
         /\ processed[Len(processed)]
              = Unit(end_year, Len(QtrRange(end_year, start_year, end_year)))

\* the calls download_data makes, each with the one after it
StageOrder ==
    {<<"download_master_files", "generate_filings_list">>,
     <<"generate_filings_list", "download_filings">>,
     <<"download_filings", "return">>}

\* C20: the download-data command calls the synchronizer, then the builder,
\* then the downloader.  The filing list is built and written in one step
\* taken after the synchronizer has returned with the last unit of its grid
\* processed; until then there is no record and no list file; a GET of an
\* index file is issued only before the list exists, and a GET of a filing
\* only after the list file was written, for a url of the list.
C20_StagesInOrder ==
    /\ [][main' # main => <<main, main'>> \in StageOrder]_vars
    /\ [][(filings_list' # filings_list \/ csv' # csv)
            => (main = "generate_filings_list" /\ SyncProcessedLast
                    /\ csv = <<>> /\ csv' = <<ToCsv(filings_list')>>)]_vars
    /\ [](main \in {"download_master_files", "generate_filings_list"}
            => (filings_list = <<>> /\ csv = <<>> /\ files = <<>>))
    /\ [][(IssuesGet /\ pc = "sync_unit")
            => (main = "generate_filings_list" /\ csv = <<>>)]_vars
    /\ [][(IssuesGet /\ pc # "sync_unit")
            => (main = "return" /\ csv = <<ToCsv(filings_list)>>
                    /\ \E i \in DOMAIN filings_list :
                          inflight' = {filings_list[i].URL})]_vars

\* the command has ended: the synchronizer fetched the index files of a grid
\* of more than one year, the builder listed their filings and the downloader
\* fetched each of them
C20_Witness ==
    /\ main = "return"
    /\ pc = "dl_done"
    /\ start_year < end_year
    /\ failed_units = {}
    /\ GridOf(start_year, end_year) \subseteq DOMAIN idx
    /\ Len(filings_list) >= 2
    /\ csv = <<ToCsv(filings_list)>>
    /\ downloaded + skipped = Len(filings_list)
    /\ downloaded >= 1

(***************************************************************************)
(* C21: the cache of the extractor is consulted first.                     *)
(***************************************************************************)
\* the steps of a call that finds nothing in the cache and reads the filing
FullTrace == <<"load", "read", "extract", "save">>

\* the path of the cache entry of the call
ExPath == GetCachePath(ex.cik, ex.year)

\* there is a cache entry for the call that json.load can read
ReadableEntry == ExPath \in DOMAIN cache /\ cache[ExPath][1] = "json"

\* C21: with caching enabled, a call of extract_from_filing looks into the
\* cache before anything else and calls the extraction at most once, after
\* the lookup and the read of the filing.  When there is a readable entry
\* for (CIK, year) the call returns its map and the extraction is not
\* called; when there is none and the filing is readable, the extraction is
\* called once and the map it returned is then written under (CIK, year),
\* which leaves it there when the write does not raise, and returned.
C21_CacheConsultedFirst ==
    /\ [](llm_config.cache_responses
            => \E n \in 0..Len(FullTrace) : ex.trace = SubSeq(FullTrace, 1, n))
    /\ [][(llm_config.cache_responses /\ ex.pc = "load" /\ ReadableEntry)
            => /\ ex'.pc = "returned"
               /\ ex'.trace = <<"load">>
               /\ ex'.ret = Some(cache[ExPath][2])
               /\ cache' = cache]_vars
    /\ [][(llm_config.cache_responses /\ ex.pc = "load" /\ ~ReadableEntry)
            => ex'.pc = "read"]_vars
    /\ [][(llm_config.cache_responses /\ ex.pc = "read" /\ ex.readable)
            => ex'.pc = "extract"]_vars
    /\ [][(llm_config.cache_responses /\ ex.pc = "extract")
            => ex'.pc = "save"]_vars
    /\ [][(llm_config.cache_responses /\ ex.pc = "save")
            => /\ ex'.pc = "returned"
               /\ ex'.trace = FullTrace
               /\ ex'.ret = Some(ex.metrics)
               /\ faults' = faults => cache'[ExPath] = <<"json", ex.metrics>>]_vars

\* the second call for a (CIK, year) has returned from the cache the map
\* that the first call extracted and stored
C21_Witness ==
    /\ llm_config.cache_responses
    /\ run = 2
    /\ ex.pc = "returned"
    /\ ex.trace = <<"load">>
    /\ ReadableEntry
    /\ ex.ret = Some(("NetIncomeLoss" :> 1))
    /\ DOMAIN cache = {ExPath}

(***************************************************************************)
(* C22: the CIK-to-ticker mapping.                                         *)
(***************************************************************************)
\* the call has ended, by a return or by an exception
MappingEnded == mp.pc \in {"returned", "raised"}

\* the folders are numbers, the structured listing has rows and the flat
\* listing is there
MappingInputsGood ==
    /\ mp.folders # None
    /\ \A f \in mp.folders[1] : IsNumeric(f)
    /\ mp.json_file # None
    /\ mp.json_file[1] # <<>>
    /\ mp.txt_file # None

\* the ticker of the first row of a listing for the cik, if there is one
TickerIn(listing, cik) ==
    LET hits == {i \in DOMAIN listing : FormatCik(listing[i].cik) = cik}
    IN IF hits = {} THEN None
       ELSE Some(listing[CHOOSE i \in hits : \A j \in hits : i <= j].ticker)

\* the ticker the merge is to give a cik: of the structured listing, else of
\* the flat listing, else "Not Found"
ExpectedTicker(cik) ==
    IF TickerIn(mp.json_file[1], cik) # None
    THEN TickerIn(mp.json_file[1], cik)[1]
    ELSE IF TickerIn(mp.txt_file[1], cik) # None
    THEN TickerIn(mp.txt_file[1], cik)[1]
    ELSE "Not Found"

\* C22: a call of generate_cik_ticker_mapping on numeric CIK folders and two
\* listings ends with the output file written; every CIK folder has a row in
\* it, and the ticker of each row is the structured listing's ticker for the
\* CIK, else the flat listing's, else "Not Found".
C22_MappingMerged ==
    (MappingEnded /\ MappingInputsGood) =>
        /\ mp.output_file # None
        /\ \A i \in DOMAIN mp.my_ciks :
             \E r \in DOMAIN mp.output_file[1] :
                /\ mp.output_file[1][r].cik = mp.my_ciks[i]
                /\ mp.output_file[1][r].ticker = ExpectedTicker(mp.my_ciks[i])

\* a call on two numeric CIK folders, a structured listing that has one of
\* them and a flat listing that has both has ended by NameError, with no
\* output file
C22_Witness ==
    /\ MappingInputsGood
    /\ mp.pc = "raised"
    /\ mp.error = "NameError"
    /\ Len(mp.my_ciks) = 2
    /\ Len(mp.json_file[1]) = 1
    /\ mp.txt_file[1] # <<>>
    /\ mp.output_file = None

(***************************************************************************)
(* C23: the local path of a record.                                        *)
(***************************************************************************)
\* the path of spec.md for a record of the builder's list: the cik as the
\* index line has it, the first four characters of the date, form and date
PathOfRecord(rec) ==
    <<rec.CIK, SubSeq(rec.Date, 1, 4), rec.Form, rec.Date>>

\* the same with the cik as a number without leading zeros
PathOfRecordIntCik(rec) ==
    <<IntText(rec.CIK), SubSeq(rec.Date, 1, 4), rec.Form, rec.Date>>

\* every cik of the list is a number
AllCiksNumeric == \A i \in DOMAIN filings_list : IsNumeric(filings_list[i].CIK)

\* C23: in the download-data command the path the downloader derives for
\* the i-th record of the list is made of the cik exactly as the builder took
\* it from the index line, the first four characters of the filing date, the
\* form and the date.
C23_PathKeepsCik ==
    (main = "return" /\ InDownloadRun) =>
        /\ Len(filings_df) = Len(filings_list)
        /\ \A i \in DOMAIN filings_df :
             FilePath(filings_df[i]) = PathOfRecord(filings_list[i])

\* the part of C23 the code keeps: year, form and date of the path are as
\* stated, and the cik is the record's cik read as a number when every cik
\* of the list is a number, and the record's cik otherwise.
C23_PathOfReadRecord ==
    (main = "return" /\ InDownloadRun) =>
        /\ Len(filings_df) = Len(filings_list)
        /\ \A i \in DOMAIN filings_df :
             FilePath(filings_df[i])
                = IF AllCiksNumeric THEN PathOfRecordIntCik(filings_list[i])
                  ELSE PathOfRecord(filings_list[i])

\* the command has written the filing of a record whose cik is 07 in the
\* index line under the directory 7
C23_Witness ==
    /\ main = "return"
    /\ pc = "dl_done"
    /\ \E i \in DOMAIN filings_list :
        /\ filings_list[i].CIK = Cik07
        /\ filings_df[i].CIK = <<"7">>
        /\ PathOfRecord(filings_list[i]) \notin DOMAIN files
        /\ FilePath(filings_df[i]) \in DOMAIN files
        /\ <<"filings", <<"7">>>> \in dirs

(***************************************************************************)
(* C24: the free functions beside the class.                               *)
(***************************************************************************)
\* the urls of the rows that were not skipped, in the order of the rows
RECURSIVE RequestedOf(_, _, _)
RequestedOf(rows, outcomes, i) ==
    IF i > Len(rows) \/ i > Len(outcomes) THEN <<>>
    ELSE (IF outcomes[i] = "skipped" THEN <<>> ELSE <<rows[i].URL>>)
            \o RequestedOf(rows, outcomes, i + 1)

\* the builder and the downloader of the class have run to their end, or to
\* the exception of read_csv on the file of an empty list, with no failure
\* of the local disk, and the free function has run
BothRan ==
    /\ fr.pc = "done"
    /\ faults = 0
    /\ \/ pc = "dl_done"
       \/ pc = "crashed" /\ csv = <<ToCsv(<<>>)>>

\* the GETs of the run of the class's downloader
ClassRequested ==
    IF pc = "dl_done" THEN RequestedOf(filings_df, processed, 1) ELSE <<>>

\* C24: on the same index files and with the same answers of the remote
\* service, the free function and the class make the same filing list,
\* request the same urls in the same order and leave the same files at the
\* same paths.
C24_SamePipeline ==
    BothRan =>
        /\ fr.list = filings_list
        /\ fr.gets = ClassRequested
        /\ fr.files = files

\* no index file of a year before the class's range is on disk
NoEarlierIndex == \A u \in DOMAIN idx : u[1] >= BuilderFirstYear

\* the part of C24 the code keeps: when no index file of a year before 2010
\* is on disk the lists are the same and the same urls are requested in the
\* same order; the files differ only in the cik of their paths, which the
\* class has read back as a number.
C24_SameFromClassRange ==
    (BothRan /\ NoEarlierIndex) =>
        /\ fr.list = filings_list
        /\ fr.gets = ClassRequested
        /\ Cardinality(DOMAIN fr.files) = Cardinality(DOMAIN files)
        /\ \A i \in DOMAIN fr.list :
             /\ (FilePath(fr.list[i]) \in DOMAIN fr.files)
                    = (PathOfRecordIntCik(fr.list[i]) \in DOMAIN files)
             /\ FilePath(fr.list[i]) \in DOMAIN fr.files
                    => fr.files[FilePath(fr.list[i])]
                          = files[PathOfRecordIntCik(fr.list[i])]

\* both have run on the index files of 2009 QTR4 and 2010 QTR1: the free
\* function listed and fetched the filing of 2009 as well, the class only
\* the one of 2010
C24_Witness ==
    /\ BothRan
    /\ pc = "dl_done"
    /\ DOMAIN idx = {Unit(BuilderFirstYear - 1, 4), Unit(BuilderFirstYear, 1)}
    /\ Len(filings_list) = 1
    /\ Len(fr.list) = 2
    /\ Len(fr.gets) = 2
    /\ ClassRequested = <<fr.gets[2]>>
    /\ downloaded = 1
    /\ Cardinality(DOMAIN fr.files) = 2

(***************************************************************************)
(* C25: the total announced to the progress bar and the updates emitted.   *)
(***************************************************************************)
\* C25: when a run of the synchronizer called with start_year <= end_year has
\* finished, the total_tasks it announced to the progress bar equals the number
\* of units on which it emitted a progress update.
C25_TotalEqualsUpdates ==
    (SyncFinished /\ start_year <= end_year) => total_tasks = pbar

\* what the two loops give: one update per processed unit, and a total that
\* counts one task for the start year where the loop processes four quarters
C25_TotalThreeShort ==
    (SyncFinished /\ start_year <= end_year) =>
        /\ pbar = Len(processed)
        /\ pbar = total_tasks + 3

\* a run over two years has finished: five updates against a total of two
C25_Witness ==
    /\ SyncFinished
    /\ end_year = start_year + 1
    /\ total_tasks = 2
    /\ pbar = 5
    /\ Len(processed) = 5

(***************************************************************************)
(* C26: the content of the file of a downloaded or skipped record.         *)
(***************************************************************************)
\* the bodies the remote service returns with status 200 for a url, given
\* the answers it has made so far
BodiesOf(url) ==
    {FilingBody(url, r) : r \in {a \in Answers(remote, url) : Is200(a)}}

\* the rows of the list whose file is at path p
RowsAt(p) == {j \in 1..Len(filings_df) : FilePath(filings_df[j]) = p}

KeptOrFetched(i) == processed[i] \in {"downloaded", "skipped"}

\* C26: when a run of the downloader has finished, the file of every record
\* whose outcome is downloaded or skipped holds the body the remote service
\* returns for the URL of that record, also when two records of the list
\* have the same CIK, form and date and different URLs.
C26_FileHoldsOwnBody ==
    pc = "dl_done" =>
        \A i \in 1..Len(filings_df) :
            KeptOrFetched(i) =>
                /\ FilePath(filings_df[i]) \in DOMAIN files
                /\ files[FilePath(filings_df[i])] \in BodiesOf(filings_df[i].URL)

\* what the loop gives when the local disk did not fail: the file holds the
\* body returned for the URL of a record of the list with the same path, the
\* record's own URL when no other URL of the list has that path
C26_FileHoldsBodyOfSamePath ==
    (pc = "dl_done" /\ faults = 0) =>
        \A i \in 1..Len(filings_df) :
            KeptOrFetched(i) =>
                LET p == FilePath(filings_df[i])
                    urls == {filings_df[j].URL : j \in RowsAt(p)}
                IN /\ p \in DOMAIN files
                   /\ \E u \in urls \cap DOMAIN remote :
                          /\ Is200(remote[u])
                          /\ files[p] = FilingBody(u, remote[u])
                   /\ urls = {filings_df[i].URL} =>
                          files[p] \in BodiesOf(filings_df[i].URL)

\* a run has finished on a list whose first two records have one path and
\* two URLs: the first was downloaded, the second skipped, and the file
\* holds the body of the first URL
C26_Witness ==
    /\ pc = "dl_done"
    /\ faults = 0
    /\ Len(filings_df) >= 2
    /\ FilePath(filings_df[1]) = FilePath(filings_df[2])
    /\ filings_df[1].URL # filings_df[2].URL
    /\ processed[1] = "downloaded"
    /\ processed[2] = "skipped"
    /\ files[FilePath(filings_df[2])] = FilingBody(filings_df[1].URL, "ok")
    /\ filings_df[2].URL \notin DOMAIN remote

(***************************************************************************)
(* C27: a downloaded record in the run that follows.                       *)
(***************************************************************************)
\* the run follows a run of the downloader over the same filing list
FollowsDownloadRun == InDownloadRun /\ prev.ran

\* the records the run before counted as downloaded
PrevDownloaded == {i \in DOMAIN prev.outcomes : prev.outcomes[i] = "downloaded"}

\* C27: every record a run of the downloader counted as downloaded is counted
\* as skipped by the run that follows it over the same filing list, and no
\* GET is issued for it, whatever body the 200 answer had, an empty body
\* included.
C27_DownloadedThenSkipped ==
    /\ [](FollowsDownloadRun =>
            \A i \in PrevDownloaded :
                i <= Len(processed) => processed[i] = "skipped")
    /\ [][(FollowsDownloadRun /\ pc = "dl_unit" /\ IssuesGet)
            => index \notin PrevDownloaded]_vars

\* what the size test gives: the record is skipped when a file of a size
\* above zero was left at its path, and it is fetched again only when the
\* body written for it was empty and nothing was written there since
C27_NonEmptyThenSkipped ==
    /\ [](FollowsDownloadRun =>
            \A i \in PrevDownloaded :
                (i <= Len(processed) /\ processed[i] # "skipped") =>
                    remote[filings_df[i].URL] = "empty")
    /\ [][(FollowsDownloadRun /\ pc = "dl_unit" /\ IssuesGet
             /\ index \in PrevDownloaded)
            => /\ remote[CurRow.URL] = "empty"
               /\ FilePath(CurRow) \in DOMAIN files
               /\ files[FilePath(CurRow)] = Empty]_vars

\* a run counted its only record as downloaded on a 200 answer with an empty
\* body, and the run after it has fetched the record again
C27_Witness ==
    /\ pc = "dl_done"
    /\ prev.ran
    /\ ~prev.killed
    /\ prev.outcomes = <<"downloaded">>
    /\ processed = <<"downloaded">>
    /\ gets = 1
    /\ remote[filings_df[1].URL] = "empty"
    /\ files[FilePath(filings_df[1])] = Empty

(***************************************************************************)
(* C28: the index files of the synchronizer's grid and the builder.        *)
(***************************************************************************)
\* the units the loops of the synchronizer go through for a year range
SyncUnits(s, e) ==
    {Unit(y, q) : y \in s..e, q \in DOMAIN quarters} \cap
        {u \in CalendarUnits : u[2] \in DOMAIN QtrRange(u[1], s, e)}

\* the builder of the download-data command has returned
PipeBuilt == main \in {"download_filings", "return"}

\* every qualifying line of the index file of unit u has its record in the
\* filing list
ListedFrom(u) ==
    Range(ExpectedFrom(idx[u], HeaderLines + 1)) \subseteq Range(filings_list)

\* C28: when the builder of the download-data command has returned, every
\* index file on disk for a unit of the synchronizer's grid, fetched or found
\* present, was read: each qualifying 10-K line of it has its record in the
\* filing list, whatever year range the synchronizer was called with.
C28_GridFilesAllRead ==
    PipeBuilt =>
        \A u \in SyncUnits(start_year, end_year) \cap DOMAIN idx : ListedFrom(u)

\* what the builder's range(2010, 2026) gives: the files of the grid whose
\* year is in that range are read, those of the other years add nothing
C28_GridFilesOfBuilderYearsRead ==
    PipeBuilt =>
        /\ \A u \in SyncUnits(start_year, end_year) \cap DOMAIN idx :
                u[1] \in BuilderYears => ListedFrom(u)
        /\ filings_list = ExpectedOfTree(idx, BuilderYears, BuilderFirstYear, 1)

\* the command was run for a range that starts the year before the
\* builder's: the synchronizer fetched the first index file of that year with
\* its 10-K line, the builder has returned and the list has no record of it
C28_Witness ==
    /\ PipeBuilt
    /\ start_year = BuilderFirstYear - 1
    /\ end_year = BuilderFirstYear - 1
    /\ Unit(start_year, 1) \in DOMAIN idx
    /\ idx[Unit(start_year, 1)] = RemoteIndex(Unit(start_year, 1))
    /\ ExpectedFrom(idx[Unit(start_year, 1)], HeaderLines + 1) # <<>>
    /\ filings_list = <<>>
    /\ gets >= 1

(***************************************************************************)
(* C29: the batch of download_daily_stock_prices.                          *)
(***************************************************************************)
PricesReturned == px.pc = "returned"
BatchTickers == {px.batch[j] : j \in DOMAIN px.batch}

\* C29: when download_daily_stock_prices returns, every ticker for which the
\* run obtained a price history with rows has its csv file in the output
\* directory and the batch is empty, whatever the batch size and whichever
\* tickers were left to process.
C29_NothingLeftUnsaved ==
    PricesReturned => (px.batch = <<>> /\ px.got \subseteq px.out)

\* what the loop gives: a history obtained is saved or still in the batch;
\* the batch is empty at the return when each history is saved at once
\* (batch_size <= 1), or when the last row is fetched and its label in the
\* stock list is the number of rows to process less one
C29_SavedOrLeftInBatch ==
    PricesReturned =>
        /\ px.got \subseteq (px.out \cup BatchTickers)
        /\ BatchTickers \subseteq px.got
        /\ px.batch_size <= 1 => px.batch = <<>>
        /\ (/\ px.rows # <<>>
            /\ px.rows[Len(px.rows)].label = Len(px.rows) - 1
            /\ px.rows[Len(px.rows)].ipo_date # NotFound) => px.batch = <<>>

\* the first ticker of a list of two has its file, the second was fetched:
\* its row has label 1, one row is processed, the call has returned and the
\* history is in the batch, not in the output directory
C29_Witness ==
    /\ PricesReturned
    /\ Len(px.df) = 2
    /\ Len(px.rows) = 1
    /\ px.rows[1].label = 1
    /\ px.batch = <<px.rows[1].ticker>>
    /\ px.rows[1].ticker \in px.got
    /\ px.rows[1].ticker \notin px.out

(***************************************************************************)
(* C30: what the extractor leaves in the cache.                            *)
(***************************************************************************)
Caching == llm_config.cache_responses

\* the call returns the map of the entry, from the lookup alone
ReturnsEntry ==
    /\ ex'.pc = "returned"
    /\ ex'.trace = <<"load">>
    /\ ex'.ret = Some(cache[ExPath][2])
    /\ cache' = cache

\* a filing that cannot be read: {} is returned and the cache is left alone
UnreadableLeavesCache ==
    [][(Caching /\ ex.pc = "read" /\ ~ex.readable)
         => /\ ex'.pc = "returned"
            /\ ex'.ret = Some(EmptyMap)
            /\ cache' = cache]_vars

\* C30: with caching enabled, every extraction attempt on a readable filing
\* is followed by the write of the cache entry of (CIK, year) with the map
\* the extraction returned, the empty map of a missing api key or of an LLM
\* error included, so that a later call for a (CIK, year) that was attempted
\* returns the stored map without calling the LLM; for a filing that cannot
\* be read the empty map is returned and no entry is written.
C30_EntryAfterEveryAttempt ==
    /\ [][(Caching /\ ex.pc = "save")
            => /\ ExPath \in DOMAIN cache'
               /\ cache'[ExPath] = <<"json", ex.metrics>>]_vars
    /\ [][(Caching /\ ex.pc = "load" /\ ExPath \in DOMAIN cache)
            => ReturnsEntry]_vars
    /\ UnreadableLeavesCache

\* the same, for the writes of the cache file that do not raise: an
\* exception of the write is logged, the map is returned all the same, and
\* the entry is then missing or cut, which the next call takes as a miss; an
\* entry that can be read stays as it is and is what every later call returns
C30_EntryUnlessWriteRaises ==
    /\ [][(Caching /\ ex.pc = "save")
            => /\ ex'.ret = Some(ex.metrics)
               /\ faults' = faults =>
                    /\ ExPath \in DOMAIN cache'
                    /\ cache'[ExPath] = <<"json", ex.metrics>>]_vars
    /\ [][(Caching /\ ex.pc = "load" /\ ReadableEntry) => ReturnsEntry]_vars
    /\ [][(Caching /\ ex.pc = "load" /\ ~ReadableEntry) => ex'.pc = "read"]_vars
    /\ [][\A p \in DOMAIN cache :
            cache[p][1] = "json" => (p \in DOMAIN cache' /\ cache'[p] = cache[p])]_vars
    /\ UnreadableLeavesCache

\* without an api key the first call stored the empty map, and the second
\* call for the same (CIK, year) has returned it from the cache
C30_Witness ==
    /\ Caching
    /\ ~llm_config.api_key
    /\ run = 2
    /\ faults = 0
    /\ ex.pc = "returned"
    /\ ex.trace = <<"load">>
    /\ cache = (ExPath :> <<"json", EmptyMap>>)
    /\ ex.ret = Some(EmptyMap)

(***************************************************************************)
(* C31: the map validate_and_combine returns.                              *)
(***************************************************************************)
CombineReturned == vc.pc = "returned"

\* the maps the call was given, and the map it returned
XbrlGiven == vc.args[vc.xbrl_metrics]
LlmGiven == vc.args[vc.llm_metrics]
Combined == vc.heap[vc.ret]

\* C31: the map validate_and_combine returns has for keys the keys of the
\* XBRL map and those of the LLM map; its value for a key of the XBRL map is
\* the XBRL value, its value for any other key is the LLM value; and neither
\* of the two maps given is modified, during the call or at its return.
C31_XbrlPreferredUnion ==
    /\ CombineReturned =>
         /\ DOMAIN Combined = DOMAIN XbrlGiven \cup DOMAIN LlmGiven
         /\ \A k \in DOMAIN XbrlGiven : Combined[k] = XbrlGiven[k]
         /\ \A k \in DOMAIN LlmGiven \ DOMAIN XbrlGiven :
                Combined[k] = LlmGiven[k]
         /\ vc.ret \notin DOMAIN vc.args
    /\ \A r \in DOMAIN vc.args : vc.heap[r] = vc.args[r]

\* the call has returned for two maps that give different values to the
\* first metric, the LLM map having a second metric the XBRL map lacks: the
\* first has the XBRL value, the second the LLM value
C31_Witness ==
    /\ CombineReturned
    /\ Len(vc.args) = 2
    /\ DOMAIN XbrlGiven = {KeyNames[1]}
    /\ DOMAIN LlmGiven = {KeyNames[1], KeyNames[2]}
    /\ XbrlGiven[KeyNames[1]] # LlmGiven[KeyNames[1]]
    /\ Combined[KeyNames[1]] = XbrlGiven[KeyNames[1]]
    /\ Combined[KeyNames[2]] = LlmGiven[KeyNames[2]]
    /\ vc.heap[1] = XbrlGiven
    /\ vc.heap[2] = LlmGiven

=============================================================================
